---- MODULE Spec2Model ----
(***************************************************************************)
(* A model of AgentHarvest's Zillow pipeline: the facade scrape_agent, the *)
(* crawl ZillowScraper.search_agents / _fetch_all_profiles, the profile     *)
(* merge parse_agent_profile and the list processors.                       *)
(*                                                                          *)
(* Python objects are mutable and shared by reference, so Agent objects     *)
(* live in `heap` (reference -> record) and every list of agents is a       *)
(* sequence of references.                                                  *)
(*                                                                          *)
(* Optional[str] is a string with the sentinel None, Optional[int] an       *)
(* integer with the sentinel NoneN; float ratings are whole numbers 0..5.   *)
(***************************************************************************)
EXTENDS Integers, Sequences, FiniteSets, TLC

VARIABLES
    entry,          \* the operation this behaviour calls
    pc,             \* position of the single thread of control
    heap,           \* Agent objects by reference
    html,           \* the profile page handed to parse_agent_profile
    argRef,         \* parse_agent_profile: the `agent` argument
    retRef,         \* parse_agent_profile: the returned reference (0: none yet)
    preHeap,        \* the heap as it was when parse_agent_profile was called
    nCalls,         \* parse_agent_profile / processor calls made so far
    dIn,            \* a processor's `agents` argument
    dOut,           \* the list the processor returned
    dOut2,          \* the list its second call returned
    dArgs,          \* the processor's other arguments
    dArgs2,         \* the other arguments of its second call
    search_input,   \* the SearchInput of the run
    skip_scraped,   \* scrape_agent's skip_scraped argument
    history_file,   \* the agent_ids stored in the history file
    history_ids,    \* ScrapingHistory.agent_ids
    client,         \* the HTTPClient of the scraper
    nRequests,      \* calls of HTTPClient.get_page_html made so far
    lastFetch,      \* how the latest page fetch (request and parse) ended
    page,           \* search_agents: page
    all_agents,     \* search_agents: all_agents
    metadata,       \* search_agents: metadata['total_results'] of the latest page
    slept,          \* the time.sleep calls since the latest request
    complete_events,    \* 'complete' events handed to progress_callback
    saved_agent_type, \* search_agents: saved_agent_type
    final_agents,   \* search_agents: final_agents
    agents,         \* _fetch_all_profiles: the `agents` argument
    unfetched,      \* _fetch_all_profiles: the agents of agents_shuffled[i:]
    enhanced_agents_dict, \* _fetch_all_profiles: agent_id -> reference
    i,              \* _fetch_all_profiles: i
    total,          \* _fetch_all_profiles: total
    batch_num,      \* _fetch_all_profiles: batch_num
    batch_size,     \* _fetch_all_profiles: batch_size
    j,              \* _fetch_all_profiles: iterations done in this batch
    failed,         \* identities whose profile fetch or parse failed
    shuffled,       \* some agent was fetched out of its original position
    outcome,        \* "running", "returned" or "raised"
    error,          \* the kind of the exception when outcome = "raised"
    result,         \* the list the call returned
    checkpoint_file,    \* SafeContinuousScraper: checkpoint.json in output_dir
    checkpoint,         \* SafeContinuousScraper: self.checkpoint
    state_index,        \* run_continuous: position of `state` in `states`
    batch_offset,       \* run_continuous: offset
    total_for_state,    \* run_continuous: total_for_state
    runs,               \* how many times the script has been started
    stop_requested  \* the caller has asked the run to stop

mergeVars == <<heap, html, argRef, retRef, preHeap>>
dedupVars == <<dIn, dOut, dOut2, dArgs, dArgs2>>
otherVars == <<html, argRef, retRef, nCalls, dedupVars>>
histVars == <<history_file, history_ids>>
netVars == <<client, nRequests, lastFetch>>
listVars == <<page, all_agents, metadata>>
profVars ==
    <<agents, unfetched, enhanced_agents_dict, i, total, batch_num, batch_size,
      j, failed, shuffled>>
endVars == <<outcome, error, result>>
paceVars == <<slept, complete_events>>
runVars ==
    <<search_input, skip_scraped, histVars, netVars, listVars,
      saved_agent_type, final_agents, profVars, endVars, paceVars>>
contVars ==
    <<checkpoint_file, checkpoint, state_index, batch_offset, total_for_state,
      runs>>
vars ==
    <<entry, pc, nCalls, mergeVars, dedupVars, runVars, stop_requested,
      contVars>>

None == "None"
NoneN == 0 - 1

----------------------------------------------------------------------------
(* Bounds                                                                   *)

MaxLen == 4         \* length of a list handed to a processor
NumIds == 3         \* distinct agent identities in a processor's input
MaxLimit == 2       \* search_input.limit
MaxPerPage == 2     \* new agents on one listing page
MaxQueue == 6       \* agents handed to _fetch_all_profiles at line 153
MaxFilterLen == 2   \* length of a list handed to apply_filters
MaxCriteria == 1    \* filter criteria set at once in a SearchInput
MaxCards == 3       \* cards on a listing page handed to the parser

----------------------------------------------------------------------------
(* models.py: Agent                                                         *)

\* An Agent as parse_agent_card builds it: summary tier set, profile tier at
\* the model's defaults (None / empty list).
NewAgent(id, team, bname, rt) ==
    [ agent_id |-> id,
      profile_url |-> <<"/profile", id>>,
      name |-> <<"name", id>>,
      brokerage_name |-> bname,
      is_top_agent |-> FALSE,
      is_team |-> team,
      rating |-> rt,
      review_count |-> 0,
      price_range |-> None,
      sales_last_12_months |-> NoneN,
      total_sales |-> NoneN,
      tags |-> IF team THEN <<"TEAM">> ELSE <<>>,
      years_experience_min |-> NoneN,
      \* profile tier
      agent_type |-> None,
      phone |-> None,
      email |-> None,
      brokerage_phone |-> None,
      specialties |-> <<>>,
      languages |-> <<>>,
      active_listings |-> NoneN,
      for_sale_listings |-> NoneN,
      for_rent_listings |-> NoneN,
      total_listings |-> NoneN ]

SummaryFields ==
    { "agent_id", "profile_url", "name", "brokerage_name", "is_top_agent",
      "is_team", "rating", "review_count", "price_range",
      "sales_last_12_months", "total_sales", "tags", "years_experience_min" }

ProfileFields ==
    { "agent_type", "phone", "email", "brokerage_phone", "specialties",
      "languages", "active_listings", "for_sale_listings", "for_rent_listings",
      "total_listings" }

----------------------------------------------------------------------------
(* parsers.py: parse_agent_profile                                          *)

\* Python's `a or b` on Optional[str]: a unless it is None or "".
OrStrNoneOnly(a, b) == IF a # None THEN a ELSE b
OrStr(a, b) == IF a # None /\ a # "" THEN a ELSE b

\* Python's `a or b` on lists: a unless it is empty.
OrListAppend(a, b) == b \o a
OrList(a, b) == IF a # <<>> THEN a ELSE b

\* `n if n else old` on the listing counts: n unless it is 0.
IfCount(n, old) == IF n # 0 THEN n ELSE old

\* The profile pages the model draws from: the fields of __NEXT_DATA__ that
\* parse_agent_profile reads.  kind "no_next_data" is a page without the
\* script tag, "malformed" one whose listing_count is not a number: both
\* raise inside the try block before any field of the agent is assigned.
NotAList == {"<not a list>"}
ProfilePages ==
    [ kind : {"ok"},
      profileTypes : {NotAList, {}, {"agent"}, {"broker"}, {"agent", "broker"}},
      phoneNumbers : [cell : {None, "c"}, brokerage : {None, "b"}],
      email : {None, "", "e1"},
      businessName : {None, "", "B2"},
      specialties : {<<>>, <<"luxury">>},
      languages : {<<>>},
      forSale : {0, 2},
      forRent : {0, 1} ]
    \cup
    [ kind : {"no_next_data", "malformed"},
      profileTypes : {{"broker"}},
      phoneNumbers : {[cell |-> "c", brokerage |-> "b"]},
      email : {"e1"},
      businessName : {"B2"},
      specialties : {<<"luxury">>},
      languages : {<<"English">>},
      forSale : {2},
      forRent : {1} ]

\* A page that populates every profile-tier field, with values no page of
\* ProfilePages carries: an agent enriched from it is the "already populated"
\* input of a later merge.
PriorPage ==
    [ kind |-> "ok",
      profileTypes |-> {"agent"},
      phoneNumbers |-> [cell |-> "c0", brokerage |-> "b0"],
      email |-> "e0",
      businessName |-> "B0",
      specialties |-> <<"condos">>,
      languages |-> <<"Spanish">>,
      forSale |-> 3,
      forRent |-> 4 ]

\* agent_type derived with the group flag tested before the broker marker.
ProfileAgentTypeTeamFirst(h, agent) ==
    IF h.profileTypes = NotAList THEN None
    ELSE IF agent.is_team THEN "team"
    ELSE IF "broker" \in h.profileTypes THEN "broker"
    ELSE IF "agent" \in h.profileTypes THEN "solo"
    ELSE None

\* agent_type as lines 297-305 derive it.
ProfileAgentType(h, agent) ==
    IF h.profileTypes = NotAList THEN None
    ELSE IF "broker" \in h.profileTypes THEN "broker"
    ELSE IF agent.is_team THEN "team"
    ELSE IF "agent" \in h.profileTypes THEN "solo"
    ELSE None

\* The values parse_agent_profile extracts from the page before it touches
\* the agent (lines 286-438): the profile overlay.
Overlay(h, agent) ==
    [ agent_type |-> ProfileAgentType(h, agent),
      phone |-> OrStr(h.phoneNumbers.cell, h.phoneNumbers.brokerage),
      email |-> h.email,
      brokerage_name |-> h.businessName,
      brokerage_phone |-> h.phoneNumbers.brokerage,
      specialties |-> h.specialties,
      languages |-> h.languages,
      for_sale_listings |-> h.forSale,
      for_rent_listings |-> h.forRent,
      active_listings |-> h.forSale + h.forRent,
      total_listings |-> h.forSale + h.forRent ]

\* Lines 441-463: the assignments onto the agent.
UpdateAgentOverwrite(agent, o) ==
    [ agent EXCEPT
        !.phone = OrStr(o.phone, @),
        !.email = OrStr(o.email, @),
        !.brokerage_name = o.brokerage_name,
        !.agent_type = OrStr(o.agent_type, @),
        !.specialties = OrList(o.specialties, @),
        !.languages = OrList(o.languages, @),
        !.brokerage_phone = OrStr(o.brokerage_phone, @),
        !.active_listings = IfCount(o.active_listings, @),
        !.for_sale_listings = IfCount(o.for_sale_listings, @),
        !.for_rent_listings = IfCount(o.for_rent_listings, @),
        !.total_listings = IfCount(o.total_listings, @) ]
UpdateAgent(agent, o) ==
    [ agent EXCEPT
        !.phone = OrStr(o.phone, @),
        !.email = OrStr(o.email, @),
        !.brokerage_name = OrStr(o.brokerage_name, @),
        !.agent_type = OrStr(o.agent_type, @),
        !.specialties = OrList(o.specialties, @),
        !.languages = OrList(o.languages, @),
        !.brokerage_phone = OrStr(o.brokerage_phone, @),
        !.active_listings = IfCount(o.active_listings, @),
        !.for_sale_listings = IfCount(o.for_sale_listings, @),
        !.for_rent_listings = IfCount(o.for_rent_listings, @),
        !.total_listings = IfCount(o.total_listings, @) ]

\* The record parse_agent_profile leaves in the agent object: updated when the
\* page parses, untouched when the try block raised (lines 467-470).
ParsedAgent(h, agent) ==
    IF h.kind = "ok" THEN UpdateAgent(agent, Overlay(h, agent)) ELSE agent

\* parse_agent_profile(html, agent) on the heap: it writes the fields onto the
\* object passed in and returns that same reference (lines 441-465, 470).
ParseCallPure(hp, ref, h) ==
    [ heap |-> Append(hp, ParsedAgent(h, hp[ref])), ret |-> Len(hp) + 1 ]
parse_agent_profile(hp, ref, h) ==
    [ heap |-> [hp EXCEPT ![ref] = ParsedAgent(h, hp[ref])], ret |-> ref ]

----------------------------------------------------------------------------
(* parsers.py: parse_agent_card, parse_agents_from_html                     *)

\* The __typename of an agent's card (line 80).
AgentCardType == "AgentDirectoryFinderProfileResultsCard"

\* review_count as lines 107-112 read it from a text like "(12)": 0 when the
\* text is missing, else the number its digits spell.
ReviewCount(text) == IF text = <<>> THEN 0 ELSE text[2]

\* parse_agent_card(card): the Agent built from the card, as a list of one, or
\* the empty list where the code returns None.  A card's encodedZuid is NoneN
\* and its cardTitle, cardActionLink <<>> when the key is missing or empty;
\* reviewInformation.json = "null" makes line 99 raise, profileData =
\* "no_label" makes line 117 raise, both inside the try block of line 83.
parse_agent_card(card) ==
    IF card.typename # AgentCardType THEN <<>>
    ELSE IF \/ card.encodedZuid = NoneN
            \/ card.cardTitle = <<>>
            \/ card.cardActionLink = <<>> THEN <<>>
    ELSE IF card.reviewInformation.json = "null" THEN <<>>
    ELSE IF card.profileData = "no_label" THEN <<>>
    ELSE << [ NewAgent(card.encodedZuid,
                       \E k \in DOMAIN card.tags : card.tags[k] = "TEAM",
                       card.secondaryCardTitle,
                       card.reviewInformation.reviewAverage)
                EXCEPT !.name = card.cardTitle,
                       !.profile_url = card.cardActionLink,
                       !.review_count =
                           ReviewCount(card.reviewInformation.reviewCountText),
                       !.tags = card.tags ] >>

RECURSIVE ParseCardsStopAtBad(_)
\* The loop of lines 223-226 ended by the first card that yields no agent.
ParseCardsStopAtBad(cards) ==
    IF cards = <<>> \/ parse_agent_card(Head(cards)) = <<>> THEN <<>>
    ELSE parse_agent_card(Head(cards)) \o ParseCardsStopAtBad(Tail(cards))

RECURSIVE ParseCards(_)
\* The loop of lines 223-226: the agents of the cards, in the cards' order.
ParseCards(cards) ==
    IF cards = <<>> THEN <<>>
    ELSE parse_agent_card(Head(cards)) \o ParseCards(Tail(cards))

\* parse_agents_from_html giving up at the first card that yields no agent.
parse_agents_until_bad_card(h) ==
    IF h.kind # "ok" THEN [raised |-> TRUE, agents |-> <<>>]
    ELSE [raised |-> FALSE, agents |-> ParseCardsStopAtBad(h.resultsCards)]

\* parse_agents_from_html(h): "raised" where extract_next_data or
\* extract_agent_results raises (lines 32, 38, 66), else the parsed agents.
parse_agents_from_html(h) ==
    IF h.kind # "ok" THEN [raised |-> TRUE, agents |-> <<>>]
    ELSE [raised |-> FALSE, agents |-> ParseCards(h.resultsCards)]

----------------------------------------------------------------------------
(* processors.py: deduplicate_agents                                        *)

\* The elements of lst at the positions in keep, in the order of the list.
AtPositions(lst, keep) ==
    LET rank == [k \in keep |-> Cardinality({m \in keep : m <= k})]
    IN  [p \in 1..Cardinality(keep) |-> lst[CHOOSE k \in keep : rank[k] = p]]

\* The loop of lines 113-116 over the list, seen_ids = seen at its start: an
\* agent is appended unless its id is in seen or an earlier agent of the list
\* has it.
DedupFrom(hp, lst, seen) ==
    AtPositions(lst,
        { k \in DOMAIN lst :
            /\ hp[lst[k]].agent_id \notin seen
            /\ \A m \in 1..(k - 1) :
                  hp[lst[m]].agent_id # hp[lst[k]].agent_id })

RemoveAt(s, k) == [m \in 1..(Len(s) - 1) |-> IF m < k THEN s[m] ELSE s[m + 1]]

RECURSIVE DedupInPlaceFrom(_, _, _, _)
\* Duplicates removed from the list while a position-by-position loop runs
\* over it: the element after a removed one is skipped.
DedupInPlaceFrom(hp, lst, k, seen) ==
    IF k > Len(lst) THEN lst
    ELSE IF hp[lst[k]].agent_id \in seen
         THEN DedupInPlaceFrom(hp, RemoveAt(lst, k), k + 1, seen)
         ELSE DedupInPlaceFrom(hp, lst, k + 1, seen \cup {hp[lst[k]].agent_id})

deduplicate_agents_in_place(hp, lst) == DedupInPlaceFrom(hp, lst, 1, {})

\* One entry per identity in the order the identities first appear, each
\* entry overwritten by every later object of the same identity.
deduplicate_agents_keep_last(hp, lst) ==
    LET firsts == DedupFrom(hp, lst, {})
        LastOf(id) == CHOOSE k \in DOMAIN lst :
                         /\ hp[lst[k]].agent_id = id
                         /\ \A m \in DOMAIN lst :
                               hp[lst[m]].agent_id = id => m <= k
    IN  [p \in DOMAIN firsts |-> lst[LastOf(hp[firsts[p]].agent_id)]]
deduplicate_agents(hp, lst) == DedupFrom(hp, lst, {})

----------------------------------------------------------------------------
(* models.py: SearchInput                                                   *)

\* validate_location (line 241) is any([...]) over the four location fields:
\* a field counts when it is truthy, i.e. neither None nor "".
Truthy(s) == s # None /\ s # ""
ValidateLocationNotNone(si) ==
    si.state # None \/ si.city # None \/ si.zip_code # None
        \/ si.location_slug # None
validate_location(si) ==
    Truthy(si.state) \/ Truthy(si.city) \/ Truthy(si.zip_code)
        \/ Truthy(si.location_slug)

\* A SearchInput with the defaults of lines 205-226 for everything but the
\* location, limit, offset, fetch_profiles and agent_type.  Optional[bool]
\* is_top_agent is None / "True" / "False"; an Optional list that is None is
\* the empty list (the code tests both by truthiness only).
SearchInput(st, ct, zp, slug, lim, off, fp, at) ==
    [ state |-> st, city |-> ct, zip_code |-> zp, location_slug |-> slug,
      rating_min |-> NoneN, review_count_min |-> NoneN,
      sales_min |-> NoneN, sales_max |-> NoneN,
      years_experience_min |-> NoneN,
      specialties |-> <<>>, languages |-> <<>>,
      is_top_agent |-> None, exclude_teams |-> FALSE,
      agent_type |-> at,
      limit |-> lim, offset |-> off, fetch_profiles |-> fp,
      progress_callback |-> None ]

----------------------------------------------------------------------------
(* processors.py: apply_filters, sort_agents, limit_results                 *)

\* str.lower() on the words the model uses.
Lower(w) ==
    CASE w = "Luxury" -> "luxury"
      [] w = "Condos" -> "condos"
      [] w = "Spanish" -> "spanish"
      [] w = "English" -> "english"
      [] OTHER -> w

\* any(c.lower() in ' '.join(words).lower() for c in criteria), lines 81-84
\* and 91-94.  Words are atoms here, so "is a substring of the joined text"
\* is "is one of the joined words".
MatchesAny(criteria, words) ==
    \E c \in DOMAIN criteria : \E k \in DOMAIN words :
        Lower(criteria[c]) = Lower(words[k])

\* The conjunction of the list comprehensions of lines 23-95 for one agent.
PassesFiltersCeilingAsFloor(a, si) ==
    /\ si.rating_min # NoneN => (a.rating # NoneN /\ a.rating >= si.rating_min)
    /\ si.review_count_min # NoneN => a.review_count >= si.review_count_min
    /\ si.sales_min # NoneN =>
          (a.sales_last_12_months # NoneN /\ a.sales_last_12_months >= si.sales_min)
    /\ si.sales_max # NoneN =>
          (a.sales_last_12_months # NoneN /\ a.sales_last_12_months >= si.sales_max)
    /\ si.years_experience_min # NoneN =>
          (a.years_experience_min # NoneN
              /\ a.years_experience_min >= si.years_experience_min)
    /\ si.is_top_agent # None =>
          (IF a.is_top_agent THEN "True" ELSE "False") = si.is_top_agent
    /\ si.exclude_teams => ~a.is_team
    /\ si.agent_type # None => a.agent_type = si.agent_type
    /\ si.specialties # <<>> => MatchesAny(si.specialties, a.specialties)
    /\ si.languages # <<>> => MatchesAny(si.languages, a.languages)
PassesFiltersNullPasses(a, si) ==
    /\ si.rating_min # NoneN => (a.rating = NoneN \/ a.rating >= si.rating_min)
    /\ si.review_count_min # NoneN => a.review_count >= si.review_count_min
    /\ si.sales_min # NoneN =>
          (a.sales_last_12_months # NoneN /\ a.sales_last_12_months >= si.sales_min)
    /\ si.sales_max # NoneN =>
          (a.sales_last_12_months # NoneN /\ a.sales_last_12_months <= si.sales_max)
    /\ si.years_experience_min # NoneN =>
          (a.years_experience_min # NoneN
              /\ a.years_experience_min >= si.years_experience_min)
    /\ si.is_top_agent # None =>
          (IF a.is_top_agent THEN "True" ELSE "False") = si.is_top_agent
    /\ si.exclude_teams => ~a.is_team
    /\ si.agent_type # None => a.agent_type = si.agent_type
    /\ si.specialties # <<>> => MatchesAny(si.specialties, a.specialties)
    /\ si.languages # <<>> => MatchesAny(si.languages, a.languages)
PassesFilters(a, si) ==
    /\ si.rating_min # NoneN => (a.rating # NoneN /\ a.rating >= si.rating_min)
    /\ si.review_count_min # NoneN => a.review_count >= si.review_count_min
    /\ si.sales_min # NoneN =>
          (a.sales_last_12_months # NoneN /\ a.sales_last_12_months >= si.sales_min)
    /\ si.sales_max # NoneN =>
          (a.sales_last_12_months # NoneN /\ a.sales_last_12_months <= si.sales_max)
    /\ si.years_experience_min # NoneN =>
          (a.years_experience_min # NoneN
              /\ a.years_experience_min >= si.years_experience_min)
    /\ si.is_top_agent # None =>
          (IF a.is_top_agent THEN "True" ELSE "False") = si.is_top_agent
    /\ si.exclude_teams => ~a.is_team
    /\ si.agent_type # None => a.agent_type = si.agent_type
    /\ si.specialties # <<>> => MatchesAny(si.specialties, a.specialties)
    /\ si.languages # <<>> => MatchesAny(si.languages, a.languages)

apply_filters(hp, lst, si) ==
    SelectSeq(lst, LAMBDA r : PassesFilters(hp[r], si))

\* The sort keys of lines 133-139 as pairs <<present, value>>; names are
\* "name<id>" in the model, so they order as their ids do.
SortKey(a, sort_by) ==
    CASE sort_by = "review_count" -> <<1, a.review_count>>
      [] sort_by = "sales_last_12_months" ->
            IF a.sales_last_12_months = NoneN THEN <<0, 0>>
            ELSE <<1, a.sales_last_12_months>>
      [] sort_by = "total_sales" ->
            IF a.total_sales = NoneN THEN <<0, 0>> ELSE <<1, a.total_sales>>
      [] sort_by = "name" -> <<1, a.agent_id>>
      [] OTHER -> IF a.rating = NoneN THEN <<0, 0>> ELSE <<1, a.rating>>

\* Python's tuple order.
KeyLess(k1, k2) == k1[1] < k2[1] \/ (k1[1] = k2[1] /\ k1[2] < k2[2])

\* sorted() is stable, with reverse=True as well: the element at position k
\* comes behind the elements whose key has to precede its key and behind the
\* earlier elements of the same key.
sort_agents(hp, lst, sort_by, descending) ==
    LET key == [k \in DOMAIN lst |-> SortKey(hp[lst[k]], sort_by)]
        Precedes(m, k) ==
            \/ IF descending THEN KeyLess(key[k], key[m])
               ELSE KeyLess(key[m], key[k])
            \/ key[m] = key[k] /\ m < k
        place == [k \in DOMAIN lst |->
                    1 + Cardinality({m \in DOMAIN lst : Precedes(m, k)})]
    IN  [p \in DOMAIN lst |-> lst[CHOOSE k \in DOMAIN lst : place[k] = p]]

Min(a, b) == IF a <= b THEN a ELSE b

\* agents[offset:offset + limit]
limit_results_to_limit(lst, limit, offset) ==
    SubSeq(lst, offset + 1, Min(limit, Len(lst)))
limit_results(lst, limit, offset) ==
    SubSeq(lst, offset + 1, Min(offset + limit, Len(lst)))

----------------------------------------------------------------------------
(* The site as the crawl sees it                                            *)

\* The ways HTTPClient.get_page_html raises (browser.py lines 251-263): HTTP
\* 403, another HTTP status, no response at all.
Failures == {"Blocked", "HttpError", "NetworkError"}

\* The card of the agent with identity id on a listing page.
SiteCard(id) ==
    NewAgent(id, id % 2 = 0, "B1",
             CASE id % 3 = 1 -> 4 [] id % 3 = 2 -> 5 [] OTHER -> NoneN)

\* The same agent listed once more on a later page, with one more review.
RepeatCard(id) == [SiteCard(id) EXCEPT !.review_count = 1]

\* What a listing request can come back with: a failure of the request, a
\* page without __NEXT_DATA__, a page whose results container is missing, or
\* n cards of agents not listed before (after a repeat of the last agent of
\* the previous page when `repeat`), with resultsFound = total: nothing, one
\* agent, or three times as many agents as the run asks for.
Totals == {0, 1, 3 * search_input.limit}

ListingResponses ==
    [ kind : Failures \cup {"no_next_data", "structure_changed"},
      n : {0}, repeat : {FALSE}, total : {0} ]
    \cup
    [ kind : {"cards"}, n : 0..MaxPerPage, repeat : BOOLEAN,
      total : Totals ]

\* The Agent objects parse_agents_from_html builds from a "cards" response.
PageCards(hp, all, resp) ==
    LET ids == { hp[r].agent_id : r \in DOMAIN hp }
        nextId == IF ids = {} THEN 1
                  ELSE 1 + CHOOSE m \in ids : \A x \in ids : x <= m
    IN  (IF resp.repeat /\ all # <<>>
         THEN << RepeatCard(hp[all[Len(all)]].agent_id) >> ELSE <<>>)
        \o [k \in 1..resp.n |-> SiteCard(nextId + k - 1)]

\* The profile pages of the crawl: a brokerage's page, a page of a plain
\* agent that has no e-mail and no listings, a page without __NEXT_DATA__.
BrokerPage ==
    [ kind |-> "ok", profileTypes |-> {"broker"},
      phoneNumbers |-> [cell |-> "c", brokerage |-> "b"],
      email |-> "e1", businessName |-> "B2", specialties |-> <<"luxury">>,
      languages |-> <<>>, forSale |-> 2, forRent |-> 1 ]
AgentPage ==
    [ kind |-> "ok", profileTypes |-> {"agent"},
      phoneNumbers |-> [cell |-> None, brokerage |-> "b"],
      email |-> None, businessName |-> None, specialties |-> <<>>,
      languages |-> <<>>, forSale |-> 0, forRent |-> 0 ]
BrokenPage == [BrokerPage EXCEPT !.kind = "no_next_data"]

\* The profile page the site holds for the agent with identity id.
SiteProfile(id) == IF id % 3 = 0 THEN BrokerPage ELSE AgentPage

\* What the request for the profile of agent id can come back with: a failure
\* of the request, the agent's page, or a page without __NEXT_DATA__.
ProfileResponses(id) ==
    [ kind : Failures, page : {BrokenPage} ]
    \cup [ kind : {"html"}, page : {SiteProfile(id), BrokenPage} ]

----------------------------------------------------------------------------
(* zillow/__init__.py: ZillowScraper                                        *)

max_pages == 100
BATCH_MIN == 5
BATCH_MAX == 15

NoClient == [created |-> FALSE, warmed_up |-> FALSE, closed |-> FALSE]
EmptyDict == [id \in {} |-> 0]

\* The try / except of lines 322-330 around _fetch_agent_profile (lines
\* 427-455) for the agent r and the response resp: the heap and
\* enhanced_agents_dict it leaves.
ProfileFetchedDropFailed(hp, d, r, resp) ==
    IF resp.kind \in Failures
    THEN [ heap |-> hp, dict |-> d ]
    ELSE LET res == parse_agent_profile(hp, r, resp.page)
         IN  [ heap |-> res.heap, dict |-> (hp[r].agent_id :> res.ret) @@ d ]
ProfileFetched(hp, d, r, resp) ==
    IF resp.kind \in Failures
    THEN [ heap |-> hp, dict |-> (hp[r].agent_id :> r) @@ d ]
    ELSE LET res == parse_agent_profile(hp, r, resp.page)
         IN  [ heap |-> res.heap, dict |-> (hp[r].agent_id :> res.ret) @@ d ]

RECURSIVE AscendingSeq(_)
\* The elements of a set of numbers in ascending order.
AscendingSeq(S) ==
    IF S = {} THEN <<>>
    ELSE LET m == CHOOSE x \in S : \A y \in S : x <= y
         IN  <<m>> \o AscendingSeq(S \ {m})

\* Line 423: [enhanced_agents_dict[agent.agent_id] for agent in agents].
RestoreOrderByKey(hp, as, d) ==
    [k \in 1..Len(AscendingSeq(DOMAIN d)) |-> d[AscendingSeq(DOMAIN d)[k]]]
RestoreOrder(hp, as, d) ==
    [k \in 1..Len(as) |-> d[hp[as[k]].agent_id]]



----------------------------------------------------------------------------
(* Specification of the profile merge: parse_agent_profile called on an    *)
(* Agent object (fresh from a listing page, or already enriched by an       *)
(* earlier profile fetch) with a page drawn from ProfilePages, then called  *)
(* once more with the same page.  A second object is a bystander.           *)

DefaultCheckpoint ==
    [ total_scraped |-> 0, last_state |-> None, last_offset |-> 0,
      session_number |-> 0 ]

\* No SafeContinuousScraper is constructed.
IdleCont ==
    /\ checkpoint_file = <<>> /\ checkpoint = DefaultCheckpoint
    /\ state_index = 0 /\ batch_offset = 0 /\ total_for_state = 0 /\ runs = 0

IdleSearch ==
    /\ search_input = SearchInput(None, None, None, None, 1, 0, FALSE, None)
    /\ skip_scraped = FALSE /\ history_file = {} /\ history_ids = {}
    /\ client = NoClient /\ nRequests = 0 /\ lastFetch = "none"
    /\ page = 0 /\ all_agents = <<>> /\ metadata = NoneN
    /\ saved_agent_type = None /\ final_agents = <<>>
    /\ agents = <<>> /\ unfetched = {} /\ enhanced_agents_dict = EmptyDict
    /\ i = 0 /\ total = 0 /\ batch_num = 0 /\ batch_size = 0 /\ j = 0
    /\ failed = {} /\ shuffled = FALSE
    /\ outcome = "running" /\ error = None /\ result = <<>>
    /\ slept = <<>> /\ complete_events = 0

\* Nothing of a run exists: no request for a stop, no continuous scraper.
IdleRun ==
    /\ stop_requested = FALSE
    /\ IdleCont
    /\ IdleSearch

IdleDedup ==
    dIn = <<>> /\ dOut = <<>> /\ dOut2 = <<>> /\ dArgs = <<>> /\ dArgs2 = <<>>
IdleMerge == html = None /\ argRef = 0 /\ retRef = 0 /\ preHeap = <<>>

InitMerge ==
    /\ entry = "parse_agent_profile"
    /\ pc = "idle"
    /\ nCalls = 0
    /\ \E team \in BOOLEAN, bname \in {None, "B1"}, enriched \in BOOLEAN :
          heap = << IF enriched
                    THEN ParsedAgent(PriorPage, NewAgent(1, team, bname, 5))
                    ELSE NewAgent(1, team, bname, 5),
                    NewAgent(2, FALSE, "B1", 4) >>
    /\ html = None
    /\ argRef = 1
    /\ retRef = 0
    /\ preHeap = <<>>
    /\ IdleDedup
    /\ IdleRun

\* One call parse_agent_profile(h, heap[argRef]).
ParseProfile(h) ==
    /\ entry = "parse_agent_profile"
    /\ pc = "idle"
    /\ html' = h
    /\ preHeap' = heap
    /\ heap' = parse_agent_profile(heap, argRef, h).heap
    /\ retRef' = parse_agent_profile(heap, argRef, h).ret
    /\ nCalls' = 1
    /\ pc' = "returned"
    /\ UNCHANGED <<entry, stop_requested, contVars, argRef, dedupVars, runVars>>

\* The same page merged a second time into the object the first call returned.
ParseProfileAgain ==
    /\ entry = "parse_agent_profile"
    /\ pc = "returned"
    /\ preHeap' = heap
    /\ heap' = parse_agent_profile(heap, retRef, html).heap
    /\ retRef' = parse_agent_profile(heap, retRef, html).ret
    /\ nCalls' = 2
    /\ pc' = "returned_twice"
    /\ UNCHANGED <<entry, stop_requested, contVars, html, argRef, dedupVars, runVars>>

NextMerge == (\E h \in ProfilePages : ParseProfile(h)) \/ ParseProfileAgain

SpecMerge == InitMerge /\ [][NextMerge]_vars

----------------------------------------------------------------------------
(* Specification of deduplicate_agents: a list drawn from bounded sets, the *)
(* processor applied to it and then to its own result.                      *)

\* Objects a listing can hold: two objects per identity, told apart by rating.
DedupHeap ==
    [r \in 1..(2 * NumIds) |->
        NewAgent(((r - 1) % NumIds) + 1, FALSE, None, IF r <= NumIds THEN 5 ELSE 4)]

SeqsUpTo(S, n) == UNION {[1..k -> S] : k \in 0..n}

InitDedup ==
    /\ entry = "deduplicate_agents"
    /\ pc = "idle"
    /\ nCalls = 0
    /\ heap = DedupHeap
    /\ IdleMerge
    /\ dIn \in SeqsUpTo(DOMAIN DedupHeap, MaxLen)
    /\ dOut = <<>>
    /\ dOut2 = <<>>
    /\ dArgs = <<>>
    /\ dArgs2 = <<>>
    /\ IdleRun

Dedup ==
    /\ entry = "deduplicate_agents"
    /\ pc = "idle"
    /\ dOut' = deduplicate_agents(heap, dIn)
    /\ nCalls' = 1
    /\ pc' = "returned"
    /\ UNCHANGED <<entry, stop_requested, contVars, mergeVars, dIn, dOut2, dArgs,
                   dArgs2, runVars>>

DedupAgain ==
    /\ entry = "deduplicate_agents"
    /\ pc = "returned"
    /\ dOut2' = deduplicate_agents(heap, dOut)
    /\ nCalls' = 2
    /\ pc' = "returned_twice"
    /\ UNCHANGED <<entry, stop_requested, contVars, mergeVars, dIn, dOut, dArgs, dArgs2,
                   runVars>>

NextDedup == Dedup \/ DedupAgain

SpecDedup == InitDedup /\ [][NextDedup]_vars

----------------------------------------------------------------------------
(* Specification of apply_filters: a list over four agents that differ in   *)
(* every filtered field, filtered under criteria drawn from bounded sets    *)
(* and then under criteria in which one criterion has been tightened.       *)

FilterHeap ==
    << [NewAgent(1, FALSE, "B1", 5) EXCEPT
          !.review_count = 10, !.sales_last_12_months = 8,
          !.years_experience_min = 5, !.is_top_agent = TRUE,
          !.agent_type = "solo", !.specialties = <<"Luxury">>,
          !.languages = <<"Spanish">>],
       NewAgent(2, TRUE, "B1", NoneN),
       [NewAgent(3, FALSE, None, 3) EXCEPT
          !.review_count = 10, !.sales_last_12_months = 2,
          !.specialties = <<"condos", "luxury">>],
       [NewAgent(4, TRUE, "B1", 4) EXCEPT
          !.review_count = 30, !.sales_last_12_months = 4,
          !.years_experience_min = 10,
          !.agent_type = "broker", !.languages = <<"English">>] >>

\* The filter criteria of a SearchInput (models.py lines 211-220).
Floors ==
    {"rating_min", "review_count_min", "sales_min", "years_experience_min"}
CriteriaNames ==
    Floors \cup {"sales_max", "is_top_agent", "exclude_teams", "agent_type",
                 "specialties", "languages"}

\* The values the model gives a criterion; "not set" is among them.
CriteriaValues(f) ==
    CASE f = "rating_min" -> {NoneN, 4, 5}
      [] f = "review_count_min" -> {NoneN, 20}
      [] f = "sales_min" -> {NoneN, 2, 5}
      [] f = "sales_max" -> {NoneN, 2, 5}
      [] f = "years_experience_min" -> {NoneN, 5}
      [] f = "is_top_agent" -> {None, "True", "False"}
      [] f = "exclude_teams" -> BOOLEAN
      [] f = "agent_type" -> {None, "solo", "broker"}
      [] f = "specialties" -> {<<>>, <<"luxury">>}
      [] OTHER -> {<<>>, <<"spanish">>}

\* Whether the criterion f of si makes apply_filters filter (lines 23, 30,
\* 37, 43, 50, 57, 64, 71, 78, 88).
IsSet(si, f) ==
    CASE f \in Floors \cup {"sales_max"} -> si[f] # NoneN
      [] f \in {"is_top_agent", "agent_type"} -> si[f] # None
      [] f = "exclude_teams" -> si[f]
      [] OTHER -> si[f] # <<>>

\* The SearchInputs with at most MaxCriteria criteria set.
FilterInputs ==
    { si \in [ state : {"CA"}, city : {None}, zip_code : {None},
               location_slug : {None},
               rating_min : CriteriaValues("rating_min"),
               review_count_min : CriteriaValues("review_count_min"),
               sales_min : CriteriaValues("sales_min"),
               sales_max : CriteriaValues("sales_max"),
               years_experience_min : CriteriaValues("years_experience_min"),
               specialties : CriteriaValues("specialties"),
               languages : CriteriaValues("languages"),
               is_top_agent : CriteriaValues("is_top_agent"),
               exclude_teams : CriteriaValues("exclude_teams"),
               agent_type : CriteriaValues("agent_type"),
               limit : {1}, offset : {0}, fetch_profiles : {FALSE},
               progress_callback : {None} ] :
        Cardinality({ f \in CriteriaNames : IsSet(si, f) }) <= MaxCriteria }

\* y is a tighter value of the criterion f than x: a floor raised, the sales
\* ceiling lowered, or a criterion that was not set now set.
TighterAt(f, x, y) ==
    CASE f \in Floors -> y # NoneN /\ y > x
      [] f = "sales_max" -> y # NoneN /\ (x = NoneN \/ y < x)
      [] f \in {"is_top_agent", "agent_type"} -> x = None /\ y # None
      [] f = "exclude_teams" -> ~x /\ y
      [] OTHER -> x = <<>> /\ y # <<>>

\* The SearchInputs that differ from si in one criterion, which is tighter.
Tightenings(si) ==
    UNION { { [si EXCEPT ![f] = v] :
                v \in { y \in CriteriaValues(f) : TighterAt(f, si[f], y) } } :
            f \in CriteriaNames }

InitFilter ==
    /\ entry = "apply_filters"
    /\ pc = "idle"
    /\ nCalls = 0
    /\ heap = FilterHeap
    /\ IdleMerge
    /\ dIn \in SeqsUpTo(DOMAIN FilterHeap, MaxFilterLen)
    /\ dArgs \in FilterInputs
    /\ dOut = <<>>
    /\ dOut2 = <<>>
    /\ dArgs2 = <<>>
    /\ IdleRun

\* apply_filters(dIn, dArgs).
Filter ==
    /\ entry = "apply_filters"
    /\ pc = "idle"
    /\ dOut' = apply_filters(heap, dIn, dArgs)
    /\ nCalls' = 1
    /\ pc' = "returned"
    /\ UNCHANGED <<entry, stop_requested, contVars, mergeVars, dIn, dOut2, dArgs,
                   dArgs2, runVars>>

\* apply_filters on the same list under the tighter criteria si.
FilterTighter(si) ==
    /\ entry = "apply_filters"
    /\ pc = "returned"
    /\ si \in Tightenings(dArgs)
    /\ dArgs2' = si
    /\ dOut2' = apply_filters(heap, dIn, si)
    /\ nCalls' = 2
    /\ pc' = "returned_twice"
    /\ UNCHANGED <<entry, stop_requested, contVars, mergeVars, dIn, dOut, dArgs, runVars>>

NextFilter == Filter \/ (\E si \in Tightenings(dArgs) : FilterTighter(si))

SpecFilter == InitFilter /\ [][NextFilter]_vars

----------------------------------------------------------------------------
(* Specification of limit_results: a list drawn from bounded sets, sliced   *)
(* with a limit and an offset that reach beyond its length.                 *)

InitLimit ==
    /\ entry = "limit_results"
    /\ pc = "idle"
    /\ nCalls = 0
    /\ heap = DedupHeap
    /\ IdleMerge
    /\ dIn \in SeqsUpTo(1..NumIds, NumIds)
    /\ dArgs \in [limit : 1..MaxLen, offset : 0..MaxLen]
    /\ dOut = <<>>
    /\ dOut2 = <<>>
    /\ dArgs2 = <<>>
    /\ IdleRun

\* limit_results(dIn, limit, offset).
Limit ==
    /\ entry = "limit_results"
    /\ pc = "idle"
    /\ dOut' = limit_results(dIn, dArgs.limit, dArgs.offset)
    /\ nCalls' = 1
    /\ pc' = "returned"
    /\ UNCHANGED <<entry, stop_requested, contVars, mergeVars, dIn, dOut2, dArgs,
                   dArgs2, runVars>>

NextLimit == Limit

SpecLimit == InitLimit /\ [][NextLimit]_vars

----------------------------------------------------------------------------
(* Specification of sort_agents: a list over four agents, two of which tie  *)
(* on every key and two of which lack a value for one, sorted by each key   *)
(* in each direction.                                                       *)

SortHeap ==
    << [NewAgent(1, FALSE, "B1", 5) EXCEPT
          !.review_count = 10, !.total_sales = 7],
       [NewAgent(2, FALSE, "B1", NoneN) EXCEPT
          !.review_count = 10, !.sales_last_12_months = 2],
       [NewAgent(3, FALSE, "B1", 5) EXCEPT
          !.review_count = 10, !.sales_last_12_months = 2, !.total_sales = 7],
       [NewAgent(4, FALSE, "B1", 3) EXCEPT
          !.review_count = 30, !.sales_last_12_months = 9] >>

\* The keys of sort_key_map (lines 133-139) and one it does not know.
SortKeys ==
    {"rating", "review_count", "sales_last_12_months", "total_sales", "name",
     "price_range"}

InitSort ==
    /\ entry = "sort_agents"
    /\ pc = "idle"
    /\ nCalls = 0
    /\ heap = SortHeap
    /\ IdleMerge
    /\ dIn \in SeqsUpTo(DOMAIN SortHeap, NumIds)
    /\ dArgs \in [sort_by : SortKeys, descending : BOOLEAN]
    /\ dOut = <<>>
    /\ dOut2 = <<>>
    /\ dArgs2 = <<>>
    /\ IdleRun

\* sort_agents(dIn, sort_by, descending).
Sort ==
    /\ entry = "sort_agents"
    /\ pc = "idle"
    /\ dOut' = sort_agents(heap, dIn, dArgs.sort_by, dArgs.descending)
    /\ nCalls' = 1
    /\ pc' = "returned"
    /\ UNCHANGED <<entry, stop_requested, contVars, mergeVars, dIn, dOut2, dArgs,
                   dArgs2, runVars>>

NextSort == Sort

SpecSort == InitSort /\ [][NextSort]_vars

----------------------------------------------------------------------------
(* Specification of parse_agents_from_html: a listing page with up to       *)
(* MaxCards cards, agent cards and others, well-formed and not.             *)

\* The well-formed card of the agent with identity id.
GoodCard(id) ==
    [ typename |-> AgentCardType,
      encodedZuid |-> id,
      cardTitle |-> <<"name", id>>,
      cardActionLink |-> <<"/profile", id>>,
      secondaryCardTitle |-> IF id % 2 = 0 THEN None ELSE "B1",
      reviewInformation |->
          [ json |-> "object",
            reviewAverage |-> IF id % 3 = 0 THEN NoneN ELSE 5,
            reviewCountText |-> IF id % 3 = 0 THEN <<>> ELSE <<"(", 10 + id, ")">> ],
      tags |-> IF id % 2 = 0 THEN <<"TOP AGENT", "TEAM">> ELSE <<>>,
      profileData |-> "ok" ]

\* The cards a page can hold: the agents' cards, an advertisement, a card
\* without __typename, and agent cards that lack a required key or that the
\* parser fails on.
Cards ==
    { GoodCard(id) : id \in 1..NumIds }
    \cup
    { [GoodCard(1) EXCEPT !.typename = "AdCard"],
      [GoodCard(1) EXCEPT !.typename = None],
      [GoodCard(1) EXCEPT !.encodedZuid = NoneN],
      [GoodCard(1) EXCEPT !.cardTitle = <<>>],
      [GoodCard(1) EXCEPT !.cardActionLink = <<>>],
      [GoodCard(1) EXCEPT !.reviewInformation.json = "null"],
      [GoodCard(1) EXCEPT !.profileData = "no_label"] }

ListingPages ==
    [ kind : {"ok"}, resultsCards : SeqsUpTo(Cards, MaxCards) ]
    \cup
    [ kind : {"no_next_data", "structure_changed"}, resultsCards : {<<>>} ]

InitCards ==
    /\ entry = "parse_agents_from_html"
    /\ pc = "idle"
    /\ nCalls = 0
    /\ heap = <<>>
    /\ html \in ListingPages
    /\ argRef = 0 /\ retRef = 0 /\ preHeap = <<>>
    /\ IdleDedup
    /\ IdleRun

\* parse_agents_from_html(html): the new Agent objects enter the heap, the
\* returned list refers to them in order.
ParseAgentsFromHtml ==
    /\ entry = "parse_agents_from_html"
    /\ pc = "idle"
    /\ LET r == parse_agents_from_html(html) IN
          /\ heap' = r.agents
          /\ dOut' = [k \in 1..Len(r.agents) |-> k]
          /\ pc' = IF r.raised THEN "raised" ELSE "returned"
    /\ nCalls' = 1
    /\ UNCHANGED <<entry, stop_requested, contVars, html, argRef, retRef, preHeap, dIn,
                   dOut2, dArgs,
                   dArgs2, runVars>>

NextCards == ParseAgentsFromHtml

SpecCards == InitCards /\ [][NextCards]_vars

----------------------------------------------------------------------------
(* Specification of a run: scrape_agent or ZillowScraper.search_agents      *)
(* called with criteria drawn from bounded sets, or search_agents standing  *)
(* at its call of _fetch_all_profiles (line 153) with a working set of up   *)
(* to MaxQueue agents.  The site answers every request nondeterministically.*)
(*                                                                          *)
(* random.shuffle (line 242) is drawn lazily: `unfetched` holds the agents  *)
(* of agents_shuffled[i:], and the agent at position i is chosen among them  *)
(* when its turn comes.  Every order of the shuffle is a behaviour.          *)

\* The location arguments in which nothing is given: every field None or "".
\* scrape_agent has no location_slug parameter (lines 17-19, 140-143).
InvalidLocations(e) ==
    [ state : {None, ""}, city : {None, ""}, zip_code : {None, ""},
      location_slug : IF e = "scrape_agent" THEN {None} ELSE {None, ""} ]
ValidLocations ==
    { [state |-> "CA", city |-> None, zip_code |-> None, location_slug |-> None] }

\* A call of `e` with one of the given SearchInputs.
InitCallWhere(e, Inputs, HistoryFiles) ==
    /\ entry = e
    /\ pc = IF e = "scrape_agent" THEN "start" ELSE "search"
    /\ search_input \in Inputs
    /\ skip_scraped \in (IF e = "scrape_agent" THEN BOOLEAN ELSE {FALSE})
    /\ history_file \in (IF skip_scraped THEN HistoryFiles ELSE {{}})
    /\ history_ids = {}
    /\ heap = <<>> /\ preHeap = <<>>
    /\ client = NoClient /\ nRequests = 0 /\ lastFetch = "none"
    /\ page = 0 /\ all_agents = <<>> /\ metadata = NoneN
    /\ saved_agent_type = None /\ final_agents = <<>>
    /\ agents = <<>> /\ unfetched = {} /\ enhanced_agents_dict = EmptyDict
    /\ i = 0 /\ total = 0 /\ batch_num = 0 /\ batch_size = 0 /\ j = 0
    /\ failed = {} /\ shuffled = FALSE
    /\ outcome = "running" /\ error = None /\ result = <<>>
    /\ slept = <<>> /\ complete_events = 0

\* A call of `e` with the given choices of criteria.
InitCall(e, Limits, Offsets, Types, HistoryFiles) ==
    InitCallWhere(e,
        { SearchInput(loc.state, loc.city, loc.zip_code, loc.location_slug,
                      lim, off, fp, at) :
            loc \in InvalidLocations(e) \cup ValidLocations,
            lim \in Limits, off \in Offsets, fp \in BOOLEAN, at \in Types },
        HistoryFiles)

\* search_agents at line 153: one listing page of n cards has been fetched,
\* filtered, deduplicated and sorted; final_agents holds all of them.
InitAtProfilesWith(QueueLens, Callbacks) ==
    /\ entry = "_fetch_all_profiles"
    /\ pc = "profiles"
    /\ \E n \in QueueLens, cb \in Callbacks :
          /\ heap = [k \in 1..n |-> SiteCard(k)]
          /\ all_agents = [k \in 1..n |-> k] /\ metadata = n
          /\ final_agents = sort_agents([k \in 1..n |-> SiteCard(k)],
                                        [k \in 1..n |-> k], "rating", TRUE)
          /\ search_input =
                [SearchInput("CA", None, None, None,
                             IF n = 0 THEN 1 ELSE n, 0, TRUE, None)
                 EXCEPT !.progress_callback = cb]
    /\ skip_scraped = FALSE /\ history_file = {} /\ history_ids = {}
    /\ preHeap = <<>>
    /\ client = [created |-> TRUE, warmed_up |-> TRUE, closed |-> FALSE]
    /\ nRequests = 1 /\ lastFetch = "ok"
    /\ page = 1
    /\ saved_agent_type = None
    /\ agents = <<>> /\ unfetched = {} /\ enhanced_agents_dict = EmptyDict
    /\ i = 0 /\ total = 0 /\ batch_num = 0 /\ batch_size = 0 /\ j = 0
    /\ failed = {} /\ shuffled = FALSE
    /\ outcome = "running" /\ error = None /\ result = <<>>
    /\ slept = <<>> /\ complete_events = 0

\* The same without a progress_callback.
InitAtProfiles(QueueLens) == InitAtProfilesWith(QueueLens, {None})

Init ==
    /\ \/ InitCall("scrape_agent", 1..MaxLimit, {0}, {None}, {{}, {1}})
       \/ InitCall("search_agents", 1..MaxLimit, {0}, {None}, {{}})
       \/ InitAtProfiles(0..MaxQueue)
    /\ html = None /\ argRef = 0 /\ retRef = 0 /\ nCalls = 0
    /\ IdleDedup
    /\ stop_requested = FALSE
    /\ IdleCont

\* An exception leaves search_agents: `except Exception: raise` (lines
\* 171-173), the client closed by `finally` (lines 175-178); scrape_agent has
\* no handler, so the call fails with it.
Raise(kind) ==
    /\ outcome' = "raised"
    /\ error' = kind
    /\ pc' = "done"

\* scrape_agent, lines 125-176: the SearchInput is built and validated, the
\* history loaded.
ScrapeAgentStart ==
    /\ pc = "start"
    /\ IF ~validate_location(search_input)
       THEN /\ Raise("ValueError")
            /\ UNCHANGED history_ids
       ELSE /\ history_ids' = IF skip_scraped THEN history_file ELSE {}
            /\ pc' = "search"
            /\ UNCHANGED <<outcome, error>>
    /\ UNCHANGED <<entry, stop_requested, contVars, paceVars, heap, preHeap, otherVars,
                   search_input, skip_scraped,
                   history_file, netVars, listVars, saved_agent_type,
                   final_agents, profVars, result>>

\* search_agents, lines 48-70: validation, then the client and the page
\* counter.
SearchAgentsStart ==
    /\ pc = "search"
    /\ IF ~validate_location(search_input)
       THEN /\ Raise("ValueError")
            /\ UNCHANGED <<client, page>>
       ELSE /\ client' = [client EXCEPT !.created = TRUE]
            /\ page' = 1
            /\ pc' = "page"
            /\ UNCHANGED <<outcome, error>>
    /\ UNCHANGED <<entry, stop_requested, contVars, paceVars, heap, preHeap, otherVars,
                   search_input, skip_scraped,
                   histVars, nRequests, lastFetch, all_agents, metadata,
                   saved_agent_type, final_agents, profVars, result>>

\* The pacing of _fetch_all_profiles, lines 248-253 and 383: seconds between
\* two requests, minutes between two batches, seconds slept at a time during
\* a break.
DELAY_MIN == 15
DELAY_MAX == 60
BREAK_MIN == 10
BREAK_MAX == 20
chunk_size == 10

\* What random.uniform draws in the model: the shortest pause between two
\* pages and between two profiles, the shortest and the longest break.
PageDelays == {3}
Delays == {DELAY_MIN}
Breaks == {BREAK_MIN * 60, BREAK_MAX * 60}

\* One call time.sleep(seconds): the whole of a pause of `seconds`.
OneSleep(kind, seconds) ==
    << [ kind |-> kind, seconds |-> seconds, drawn |-> seconds,
         last |-> TRUE, event |-> None ] >>

\* The loop of lines 384-401: a pause of `seconds` slept chunk_size seconds
\* at a time, with a 'break_progress' event after every chunk but the last
\* when there is a callback.
ChunkedSleep(kind, seconds, callback) ==
    LET n == (seconds + chunk_size - 1) \div chunk_size
    IN  [ k \in 1..n |->
            [ kind |-> kind,
              seconds |-> IF k < n THEN chunk_size
                          ELSE seconds - (n - 1) * chunk_size,
              drawn |-> seconds,
              last |-> (k = n),
              event |-> IF k < n /\ callback # None
                        THEN "break_progress" ELSE None ] ]

\* The test of the pagination loop without its ceiling.
PageLoopTestNoCeiling(collected, limit, p) == collected < limit

\* The test of the pagination loop, line 72.
PageLoopTest(collected, limit, p) == collected < limit /\ p <= max_pages

\* One iteration of the pagination loop, lines 72-105: _fetch_agents_page
\* (lines 180-219), the three stop rules, the pause, page += 1 and the loop
\* test.  `warm` is whether the warm-up visit succeeds when one is made.
FetchAgentsPage(resp, warm, delay) ==
    /\ pc = "page"
    /\ nRequests' = nRequests + 1
    /\ lastFetch' = IF resp.kind = "cards" THEN "ok" ELSE resp.kind
    /\ IF resp.kind # "cards"
       THEN /\ Raise(resp.kind)
            /\ client' = [client EXCEPT !.warmed_up = @ \/ warm, !.closed = TRUE]
            /\ UNCHANGED <<heap, page, all_agents, metadata>>
            /\ slept' = <<>>
       ELSE LET new == PageCards(heap, all_agents, resp)
                got == [k \in 1..Len(new) |-> Len(heap) + k]
                all == all_agents \o got
            IN  /\ heap' = heap \o new
                /\ client' = [client EXCEPT !.warmed_up = @ \/ warm]
                /\ metadata' = resp.total
                /\ UNCHANGED <<outcome, error>>
                /\ IF got = <<>>
                   THEN /\ pc' = "pipeline"
                        /\ slept' = <<>>
                        /\ UNCHANGED <<page, all_agents>>
                   ELSE /\ all_agents' = all
                        /\ IF Len(all) >= search_input.limit
                              \/ Len(all) >= resp.total
                           THEN /\ pc' = "pipeline"
                                /\ slept' = <<>>
                                /\ UNCHANGED page
                           ELSE /\ slept' = IF page < max_pages
                                           THEN OneSleep("page", delay)
                                           ELSE <<>>
                                /\ page' = page + 1
                                /\ pc' = IF PageLoopTest(Len(all),
                                                         search_input.limit,
                                                         page + 1)
                                         THEN "page" ELSE "pipeline"
    /\ UNCHANGED <<entry, stop_requested, contVars, complete_events, preHeap, otherVars, search_input,
                   skip_scraped,
                   histVars, saved_agent_type, final_agents, profVars, result>>

\* Lines 107-150: agent_type forces profile fetching and is set aside, then
\* apply_filters, deduplicate_agents, sort_agents, limit_results.
ApplyPipeline ==
    /\ pc = "pipeline"
    /\ LET fp == search_input.fetch_profiles \/ search_input.agent_type # None
           saved == IF fp THEN search_input.agent_type ELSE None
           si == [search_input EXCEPT
                     !.fetch_profiles = fp,
                     !.agent_type = IF saved # None THEN None ELSE @]
           filtered_agents == apply_filters(heap, all_agents, si)
           unique_agents == deduplicate_agents(heap, filtered_agents)
           sorted_agents == sort_agents(heap, unique_agents, "rating", TRUE)
           limit_to_fetch == IF saved # None
                             THEN Min(si.limit * 3, Len(sorted_agents))
                             ELSE si.limit
       IN  /\ search_input' = si
           /\ saved_agent_type' = saved
           /\ final_agents' = limit_results(sorted_agents, limit_to_fetch, si.offset)
           /\ pc' = IF fp THEN "profiles" ELSE "return"
    /\ UNCHANGED <<entry, stop_requested, contVars, paceVars, heap, preHeap, otherVars,
                   skip_scraped, histVars,
                   netVars, listVars, profVars, endVars>>

\* _fetch_all_profiles, lines 241-280: the shuffled copy, the dictionary and
\* the counters.
ProfilesStart ==
    /\ pc = "profiles"
    /\ agents' = final_agents
    /\ unfetched' = { final_agents[k] : k \in DOMAIN final_agents }
    /\ enhanced_agents_dict' = EmptyDict
    /\ total' = Len(final_agents)
    /\ i' = 0
    /\ batch_num' = 1
    /\ batch_size' = 0
    /\ j' = 0
    /\ failed' = {}
    /\ shuffled' = FALSE
    /\ preHeap' = heap
    /\ pc' = IF Len(final_agents) > 0 THEN "batch" ELSE "restore"
    /\ UNCHANGED <<entry, stop_requested, contVars, paceVars, heap, otherVars, search_input,
                   skip_scraped, histVars,
                   netVars, listVars, saved_agent_type, final_agents, endVars>>

\* random.randint(BATCH_MIN, BATCH_MAX), whatever is left of the queue.
BatchSizesUncapped(remaining) == BATCH_MIN..BATCH_MAX

\* Lines 284-288: the sizes the next batch can have when `remaining` agents
\* are left.
BatchSizes(remaining) ==
    Min(BATCH_MIN, remaining)..Min(BATCH_MAX, remaining)

\* Lines 282-302: the size of the next batch.
BatchStart(size) ==
    /\ pc = "batch"
    /\ size \in BatchSizes(total - i)
    /\ batch_size' = size
    /\ j' = 0
    /\ pc' = "fetch"
    /\ UNCHANGED <<entry, stop_requested, contVars, paceVars, heap, preHeap, otherVars,
                   search_input, skip_scraped,
                   histVars, netVars, listVars, saved_agent_type, final_agents,
                   agents, unfetched, enhanced_agents_dict, i, total, batch_num,
                   failed, shuffled, endVars>>

\* One iteration of the batch loop, lines 305-348: the agent r is the one
\* the shuffle put at position i; its profile is requested and merged, or the
\* failure caught; i += 1; the pause before the next request.
FetchAgentProfile(r, resp, warm, delay) ==
    /\ pc = "fetch"
    /\ r \in unfetched
    /\ LET done == ProfileFetched(heap, enhanced_agents_dict, r, resp)
       IN  /\ heap' = done.heap
           /\ enhanced_agents_dict' = done.dict
    /\ nRequests' = nRequests + 1
    /\ client' = [client EXCEPT !.warmed_up = @ \/ warm]
    /\ lastFetch' = IF resp.kind \in Failures THEN resp.kind
                    ELSE IF resp.page.kind = "ok" THEN "ok" ELSE resp.page.kind
    /\ failed' = IF resp.kind \in Failures \/ resp.page.kind # "ok"
                 THEN failed \cup {heap[r].agent_id} ELSE failed
    /\ unfetched' = unfetched \ {r}
    /\ shuffled' = (shuffled \/ r # agents[i + 1])
    /\ i' = i + 1
    /\ j' = j + 1
    /\ slept' = IF i + 1 < total THEN OneSleep("delay", delay) ELSE <<>>
    /\ pc' = IF j + 1 < batch_size /\ i + 1 < total THEN "fetch"
             ELSE IF i + 1 < total THEN "break" ELSE "restore"
    /\ UNCHANGED <<entry, stop_requested, contVars, complete_events, preHeap, otherVars, search_input,
                   skip_scraped,
                   histVars, listVars, saved_agent_type, final_agents, agents,
                   total, batch_num, batch_size, endVars>>

\* Lines 358-403: the break between two batches, slept in chunks.
BatchBreak(break_seconds) ==
    /\ pc = "break"
    /\ slept' = slept \o ChunkedSleep("break", break_seconds,
                                     search_input.progress_callback)
    /\ batch_num' = batch_num + 1
    /\ pc' = "batch"
    /\ UNCHANGED <<entry, stop_requested, contVars, complete_events, heap, preHeap, otherVars,
                   search_input, skip_scraped,
                   histVars, netVars, listVars, saved_agent_type, final_agents,
                   agents, unfetched, enhanced_agents_dict, i, total,
                   batch_size, j, failed, shuffled, endVars>>

\* Lines 405-425: the original order restored and the list returned to line
\* 153.  Looking up an identity the dictionary lacks is a KeyError.
ProfilesReturn ==
    /\ pc = "restore"
    /\ complete_events' = IF search_input.progress_callback # None
                          THEN complete_events + 1 ELSE complete_events
    /\ IF \A k \in DOMAIN agents :
             heap[agents[k]].agent_id \in DOMAIN enhanced_agents_dict
       THEN /\ final_agents' = RestoreOrder(heap, agents, enhanced_agents_dict)
            /\ IF entry = "_fetch_all_profiles"
               THEN /\ pc' = "done"
                    /\ outcome' = "returned"
                    /\ result' = RestoreOrder(heap, agents, enhanced_agents_dict)
               ELSE /\ pc' = "return"
                    /\ UNCHANGED <<outcome, result>>
            /\ UNCHANGED <<error, client>>
       ELSE /\ Raise("KeyError")
            /\ client' = [client EXCEPT !.closed = TRUE]
            /\ UNCHANGED <<final_agents, result>>
    /\ UNCHANGED <<entry, stop_requested, contVars, slept, heap, preHeap, otherVars,
                   search_input, skip_scraped,
                   histVars, nRequests, lastFetch, listVars, saved_agent_type,
                   profVars>>

\* The agent_type filter without the second limit of line 164.
FilterByTypeNoLimit(hp, lst, at, limit) ==
    SelectSeq(lst, LAMBDA r : hp[r].agent_type = at)

\* Lines 159-164: the agents whose agent_type is the criterion, cut to limit.
FilterByType(hp, lst, at, limit) ==
    LET typed == SelectSeq(lst, LAMBDA r : hp[r].agent_type = at)
    IN  SubSeq(typed, 1, Min(limit, Len(typed)))

\* Lines 155-178: the agent_type filter and the second limit, the return and
\* the `finally` that closes the client.
SearchAgentsReturn ==
    /\ pc = "return"
    /\ LET final == IF saved_agent_type # None
                    THEN FilterByType(heap, final_agents, saved_agent_type,
                                      search_input.limit)
                    ELSE final_agents
       IN  /\ final_agents' = final
           /\ result' = IF entry = "scrape_agent" THEN result ELSE final
    /\ search_input' = IF saved_agent_type # None
                       THEN [search_input EXCEPT !.agent_type = saved_agent_type]
                       ELSE search_input
    /\ client' = [client EXCEPT !.closed = TRUE]
    /\ pc' = IF entry = "scrape_agent" THEN "facade" ELSE "done"
    /\ outcome' = IF entry = "scrape_agent" THEN outcome ELSE "returned"
    /\ UNCHANGED <<entry, stop_requested, contVars, paceVars, heap, preHeap, otherVars,
                   skip_scraped, histVars,
                   nRequests, lastFetch, listVars, saved_agent_type, profVars,
                   error>>

\* A save that writes the new identities only.
HistoryOnlyNew(file, ids, new_ids, saved) ==
    IF new_ids # {} /\ saved THEN new_ids ELSE file

\* scrape_agent, lines 187-190, with history.py lines 51-75: where there are
\* new agents their identities join those loaded and the set is written to
\* the file, if the write succeeds.
HistoryAfterRun(file, ids, new_ids, saved) ==
    IF new_ids # {} /\ saved THEN ids \cup new_ids ELSE file

\* scrape_agent, lines 182-201: agents already in the history are dropped,
\* the new identities added to it and saved.  ScrapingHistory.save writes the
\* file or, where the write fails (`saved` is FALSE), prints a warning and
\* returns (history.py lines 51-63): the run goes on either way.
ScrapeAgentFinish(saved) ==
    /\ pc = "facade"
    /\ LET new_agents == SelectSeq(final_agents,
                                   LAMBDA r : heap[r].agent_id \notin history_ids)
           new_ids == { heap[new_agents[k]].agent_id : k \in DOMAIN new_agents }
       IN  IF skip_scraped /\ final_agents # <<>>
           THEN /\ result' = new_agents
                /\ history_ids' = history_ids \cup new_ids
                /\ history_file' = HistoryAfterRun(history_file, history_ids,
                                                   new_ids, saved)
           ELSE /\ result' = final_agents
                /\ UNCHANGED histVars
    /\ outcome' = "returned"
    /\ pc' = "done"
    /\ UNCHANGED <<entry, stop_requested, contVars, paceVars, heap, preHeap, otherVars,
                   search_input, skip_scraped,
                   netVars, listVars, saved_agent_type, final_agents, profVars,
                   error>>

Next ==
    \/ ScrapeAgentStart
    \/ SearchAgentsStart
    \/ \E resp \in ListingResponses :
          \E warm \in (IF client.warmed_up THEN {TRUE} ELSE BOOLEAN),
             delay \in PageDelays :
                FetchAgentsPage(resp, warm, delay)
    \/ ApplyPipeline
    \/ ProfilesStart
    \/ \E size \in 1..BATCH_MAX : BatchStart(size)
    \/ \E r \in unfetched :
          \E resp \in ProfileResponses(heap[r].agent_id),
             warm \in (IF client.warmed_up THEN {TRUE} ELSE BOOLEAN),
             delay \in Delays :
                FetchAgentProfile(r, resp, warm, delay)
    \/ \E break_seconds \in Breaks : BatchBreak(break_seconds)
    \/ ProfilesReturn
    \/ SearchAgentsReturn
    \/ \E saved \in BOOLEAN : ScrapeAgentFinish(saved)

Spec == Init /\ [][Next]_vars

----------------------------------------------------------------------------
(* Specification of a run with the agent_type criterion: scrape_agent or    *)
(* search_agents called with it, or search_agents standing at line 107 with *)
(* one listing page of MaxQueue cards collected.                            *)

AgentTypes == {"solo", "team", "broker"}

\* search_agents at line 107: the page loop has ended after one page of n
\* cards, nothing has been filtered yet.
InitAtPipeline(QueueLens, Limits, Types) ==
    /\ entry = "search_agents"
    /\ pc = "pipeline"
    /\ \E n \in QueueLens, lim \in Limits, fp \in BOOLEAN, at \in Types :
          /\ heap = [k \in 1..n |-> SiteCard(k)]
          /\ all_agents = [k \in 1..n |-> k] /\ metadata = n
          /\ search_input = SearchInput("CA", None, None, None, lim, 0, fp, at)
    /\ skip_scraped = FALSE /\ history_file = {} /\ history_ids = {}
    /\ preHeap = <<>>
    /\ client = [created |-> TRUE, warmed_up |-> TRUE, closed |-> FALSE]
    /\ nRequests = 1 /\ lastFetch = "ok"
    /\ page = 1
    /\ saved_agent_type = None /\ final_agents = <<>>
    /\ agents = <<>> /\ unfetched = {} /\ enhanced_agents_dict = EmptyDict
    /\ i = 0 /\ total = 0 /\ batch_num = 0 /\ batch_size = 0 /\ j = 0
    /\ failed = {} /\ shuffled = FALSE
    /\ outcome = "running" /\ error = None /\ result = <<>>
    /\ slept = <<>> /\ complete_events = 0

InitType ==
    /\ \/ InitCall("scrape_agent", {1}, {0}, AgentTypes, {{}})
       \/ InitCall("search_agents", {1}, {0}, AgentTypes, {{}})
       \/ InitAtPipeline({MaxQueue}, {1}, AgentTypes)
       \/ InitAtPipeline({MaxQueue}, {MaxLimit}, {"team"})
    /\ html = None /\ argRef = 0 /\ retRef = 0 /\ nCalls = 0
    /\ IdleDedup
    /\ stop_requested = FALSE
    /\ IdleCont

SpecType == InitType /\ [][Next]_vars

----------------------------------------------------------------------------
(* Specification of a run whose caller may ask it to stop.  Neither         *)
(* scrape_agent nor SearchInput has a parameter for such a request and no   *)
(* line of the scheduler reads one: the request is a fact of the            *)
(* environment, raised at any moment of a run that has not ended.           *)

RequestStop ==
    /\ outcome = "running"
    /\ ~stop_requested
    /\ stop_requested' = TRUE
    /\ UNCHANGED <<entry, pc, nCalls, mergeVars, dedupVars, runVars, contVars>>

NextStop == Next \/ RequestStop

SpecStop == Init /\ [][NextStop]_vars


----------------------------------------------------------------------------
(* Claims about a run (Spec)                                                *)

IsCall == entry \in {"scrape_agent", "search_agents"}

\* No location selector is given: each of the four fields is unset or empty.
NoLocation ==
    \A f \in {"state", "city", "zip_code", "location_slug"} :
        search_input[f] \in {None, ""}

\* C1: a call of scrape_agent or search_agents whose criteria give no location
\* either has not started or has failed with ValueError, and at no point has
\* it created the HTTP client or asked it for a page (the warm-up visit is
\* made by the client on its first page request).
C1_NoLocationFailsBeforeFetch ==
    (IsCall /\ NoLocation) =>
        /\ nRequests = 0
        /\ ~client.created /\ ~client.warmed_up
        /\ \/ pc = (IF entry = "scrape_agent" THEN "start" ELSE "search")
              /\ outcome = "running"
           \/ pc = "done" /\ outcome = "raised" /\ error = "ValueError"

\* scrape_agent called with state = "" and nothing else has failed.
C1_Witness ==
    /\ entry = "scrape_agent" /\ NoLocation /\ search_input.state = ""
    /\ pc = "done" /\ outcome = "raised" /\ error = "ValueError"

\* _fetch_all_profiles has been entered / has returned its list.
ProfilesEntered == batch_num >= 1
ProfilesReturned ==
    /\ ProfilesEntered
    /\ \/ pc = "return"
       \/ entry = "_fetch_all_profiles" /\ pc = "done" /\ outcome = "returned"

\* The position of identity id in a list of references.
PositionsOf(id, lst) == { k \in DOMAIN lst : heap[lst[k]].agent_id = id }

\* C2: a failed profile fetch or parse never makes the run raise; when
\* _fetch_all_profiles returns, every record of the queue has been requested
\* once, and each record whose fetch or parse failed is in the returned list
\* once, equal to its summary record with no profile-tier field populated.
C2_FailedRecordKeptBasic ==
    /\ ProfilesEntered => outcome # "raised"
    /\ ProfilesReturned =>
          /\ i = total /\ unfetched = {}
          /\ nRequests = page + Len(agents)
          /\ \A k \in DOMAIN agents :
                LET id == preHeap[agents[k]].agent_id
                IN  id \in failed =>
                       /\ Cardinality(PositionsOf(id, final_agents)) = 1
                       /\ \A m \in PositionsOf(id, final_agents) :
                             /\ heap[final_agents[m]] = preHeap[agents[k]]
                             /\ \A f \in ProfileFields :
                                   heap[final_agents[m]][f]
                                      = NewAgent(id, FALSE, None, NoneN)[f]

\* A queue longer than one batch has been worked off with a blocked request,
\* a page that did not parse and a profile that was merged.
C2_Witness ==
    /\ entry = "_fetch_all_profiles" /\ pc = "done" /\ outcome = "returned"
    /\ Cardinality(failed) >= 2
    /\ lastFetch = "Blocked"
    /\ \E k \in DOMAIN result : heap[result[k]].phone # None
    /\ \E k \in DOMAIN result :
          heap[result[k]].agent_id \in failed /\ heap[result[k]].phone = None

\* C3 as stated: once a page fetch has failed with the Blocked kind the run
\* is over, failed with that kind: nothing is requested after it.
C3_BlockedEndsRun ==
    lastFetch = "Blocked" =>
        pc = "done" /\ outcome = "raised" /\ error = "Blocked"

\* C4 as stated: a listing page without the results container makes the run
\* fail only when it is the first page, and then with no result; on a later
\* page the run does not fail.
C4_StructureChangedAbortsPageOnly ==
    lastFetch = "structure_changed" =>
        IF page = 1
        THEN outcome = "raised" /\ result = <<>>
        ELSE outcome # "raised"

\* C5: the list _fetch_all_profiles returns is as long as the list passed in
\* and lists the same identities in the same order, whatever the order of the
\* fetches, the sizes of the batches and the outcome of every fetch.
C5_ProfilesKeepOrder ==
    ProfilesReturned =>
        /\ Len(final_agents) = Len(agents)
        /\ \A k \in DOMAIN agents :
              heap[final_agents[k]].agent_id = preHeap[agents[k]].agent_id

\* A queue of more than BATCH_MIN agents, not in the order of their
\* identities, fetched out of order in two batches with a failure among them.
C5_Witness ==
    /\ entry = "_fetch_all_profiles" /\ pc = "done" /\ outcome = "returned"
    /\ Len(agents) > BATCH_MIN
    /\ shuffled /\ batch_num = 2 /\ failed # {}
    /\ \E k \in DOMAIN agents : heap[agents[k]].agent_id # k
    /\ [k \in DOMAIN result |-> heap[result[k]].agent_id]
          = [k \in DOMAIN agents |-> preHeap[agents[k]].agent_id]

----------------------------------------------------------------------------
(* Claims about the profile merge (SpecMerge)                               *)

StrFields == {"agent_type", "phone", "email", "brokerage_name", "brokerage_phone"}
ListFields == {"specialties", "languages"}
CountFields ==
    {"active_listings", "for_sale_listings", "for_rent_listings", "total_listings"}
OverlayFields == StrFields \cup ListFields \cup CountFields

\* The overlay extracts lists and counts unconditionally ([] and 0 when the
\* page has none); only the string-valued fields can be null.
IsNull(f, v) == f \in StrFields /\ v = None
IsEmpty(f, v) ==
    \/ f \in StrFields /\ v \in {None, ""}
    \/ f \in ListFields /\ v = <<>>
    \/ f \in CountFields /\ v \in {NoneN, 0}

Merged == entry = "parse_agent_profile" /\ pc = "returned" /\ html.kind = "ok"
PreAgent == preHeap[argRef]
PostAgent == heap[retRef]
LastOverlay == Overlay(html, PreAgent)

\* C6 as stated: after the merge every field whose overlay value is non-null
\* holds the overlay value, every field whose overlay value is null holds the
\* value it had before, and no populated field has become empty or null.
C6_MergeNonNullReplaces ==
    Merged =>
        \A f \in OverlayFields :
            /\ IF IsNull(f, LastOverlay[f])
               THEN PostAgent[f] = PreAgent[f]
               ELSE PostAgent[f] = LastOverlay[f]
            /\ ~IsEmpty(f, PreAgent[f]) => ~IsEmpty(f, PostAgent[f])

\* C6 as amended: after the merge every field whose overlay value is non-empty
\* (not null, not "", not 0, not an empty list) holds the overlay value, every
\* other field holds the value it had before, and no populated field has
\* become empty or null.
C6_MergeNonEmptyReplaces ==
    Merged =>
        \A f \in OverlayFields :
            /\ IF IsEmpty(f, LastOverlay[f])
               THEN PostAgent[f] = PreAgent[f]
               ELSE PostAgent[f] = LastOverlay[f]
            /\ ~IsEmpty(f, PreAgent[f]) => ~IsEmpty(f, PostAgent[f])

\* A populated e-mail survives an overlay whose e-mail is the empty string
\* while the overlay's phone number replaces the populated one.
C6_Witness ==
    /\ Merged
    /\ html.email = "" /\ PreAgent.email = "e0" /\ PostAgent.email = "e0"
    /\ PreAgent.phone = "c0" /\ PostAgent.phone = "c"

\* C7: merging the same overlay a second time changes nothing: the record
\* after the second merge equals, field by field, the record after the first.
C7_MergeIdempotent ==
    (entry = "parse_agent_profile" /\ pc = "returned_twice") =>
        heap[retRef] = preHeap[argRef]

C7_Witness ==
    /\ entry = "parse_agent_profile" /\ pc = "returned_twice"
    /\ html.kind = "ok"
    /\ html.specialties = <<"luxury">> /\ heap[retRef].specialties = <<"luxury">>
    /\ heap[retRef].for_sale_listings = 2 /\ heap[retRef].agent_type = "broker"

\* C8 as stated: the merge has no side effect: the record passed in is left
\* as it was, so a reference held to it shows after the merge what it showed
\* before.
C8_MergeLeavesArgument ==
    (entry = "parse_agent_profile" /\ pc = "returned") =>
        heap[argRef] = preHeap[argRef]

\* C8 as amended: the merge writes into the record passed in and returns that
\* same record, so a reference held to the pre-merge record shows the merged
\* profile-tier values; no other record is touched and none is created.
C8_MergeInPlace ==
    (entry = "parse_agent_profile" /\ pc = "returned") =>
        /\ retRef = argRef
        /\ DOMAIN heap = DOMAIN preHeap
        /\ \A r \in DOMAIN preHeap : r # argRef => heap[r] = preHeap[r]
        /\ html.kind = "ok" =>
              \A f \in OverlayFields :
                  ~IsEmpty(f, LastOverlay[f]) => heap[argRef][f] = LastOverlay[f]

\* The reference passed in shows a phone number it did not show before.
C8_Witness ==
    /\ Merged
    /\ preHeap[argRef].phone = None
    /\ heap[argRef].phone = "c"

\* C9: the merge changes neither the identity nor any summary-tier field of
\* the record, except the organization name, and that only to a non-null
\* value read from the profile page.
C9_MergeKeepsSummary ==
    (entry = "parse_agent_profile" /\ pc \in {"returned", "returned_twice"}) =>
        /\ \A f \in SummaryFields \ {"brokerage_name"} :
               PostAgent[f] = PreAgent[f]
        /\ PostAgent.brokerage_name # PreAgent.brokerage_name =>
               /\ html.kind = "ok"
               /\ PostAgent.brokerage_name = html.businessName
               /\ PostAgent.brokerage_name # None

C9_Witness ==
    /\ Merged
    /\ PreAgent.brokerage_name = "B1"
    /\ html.businessName = "B2"
    /\ PostAgent.brokerage_name = "B2"
    /\ PostAgent.agent_type = "team"

\* The role markers of the merged page, when the page carries a list of them.
HasMarkerList == html.profileTypes # NotAList
HasMarker(m) == HasMarkerList /\ m \in html.profileTypes

\* C16 as stated: a page with the "broker" marker yields broker, also for a
\* record whose group flag is true; otherwise a true group flag yields team;
\* otherwise the "agent" marker yields solo; otherwise the classification
\* stays what it was.
C16_ClassificationPrecedence ==
    Merged =>
        IF HasMarker("broker") THEN PostAgent.agent_type = "broker"
        ELSE IF PreAgent.is_team THEN PostAgent.agent_type = "team"
        ELSE IF HasMarker("agent") THEN PostAgent.agent_type = "solo"
        ELSE PostAgent.agent_type = PreAgent.agent_type

\* C16, amended: the precedence broker marker > group flag > agent marker
\* holds for a page whose role markers are a list; with no marker and no
\* group flag, and for a page whose role markers are not a list whatever the
\* group flag, the classification is left as it was (null on a first merge).
C16_PrecedenceOverMarkerList ==
    Merged =>
        IF ~HasMarkerList THEN PostAgent.agent_type = PreAgent.agent_type
        ELSE IF HasMarker("broker") THEN PostAgent.agent_type = "broker"
        ELSE IF PreAgent.is_team THEN PostAgent.agent_type = "team"
        ELSE IF HasMarker("agent") THEN PostAgent.agent_type = "solo"
        ELSE PostAgent.agent_type = PreAgent.agent_type

C16_Witness ==
    /\ Merged
    /\ HasMarker("broker")
    /\ PreAgent.is_team
    /\ PreAgent.agent_type = None
    /\ PostAgent.agent_type = "broker"

----------------------------------------------------------------------------
(* Claims about deduplicate_agents (SpecDedup)                              *)

\* C10: deduplicating a deduplicated list changes nothing, and the
\* deduplicated list is never longer than the input.
C10_DedupIdempotent ==
    /\ (entry = "deduplicate_agents" /\ pc \in {"returned", "returned_twice"}) =>
           Len(dOut) <= Len(dIn)
    /\ (entry = "deduplicate_agents" /\ pc = "returned_twice") =>
           dOut2 = dOut

\* A list with a repeated identity between two others, deduplicated twice.
C10_Witness ==
    /\ entry = "deduplicate_agents" /\ pc = "returned_twice"
    /\ Len(dIn) = 4 /\ Len(dOut) = 2
    /\ heap[dIn[1]].agent_id = heap[dIn[3]].agent_id
    /\ heap[dIn[1]].agent_id # heap[dIn[2]].agent_id

\* The position at which the identity of the object r first occurs in dIn.
FirstPosition(r) ==
    CHOOSE k \in DOMAIN dIn :
        /\ heap[dIn[k]].agent_id = heap[r].agent_id
        /\ \A m \in DOMAIN dIn :
              heap[dIn[m]].agent_id = heap[r].agent_id => k <= m

\* C11: the deduplicated list holds, for every identity of the input, exactly
\* one object, which is the object at the identity's first position in the
\* input; it holds nothing else, and these objects stand in the order of
\* their positions in the input.
C11_DedupFirstOccurrence ==
    (entry = "deduplicate_agents" /\ pc \in {"returned", "returned_twice"}) =>
        /\ \A k \in DOMAIN dIn :
              Cardinality({ p \in DOMAIN dOut :
                  heap[dOut[p]].agent_id = heap[dIn[k]].agent_id }) = 1
        /\ \A p \in DOMAIN dOut :
              /\ \E k \in DOMAIN dIn : dOut[p] = dIn[k]
              /\ dOut[p] = dIn[FirstPosition(dOut[p])]
        /\ \A p, q \in DOMAIN dOut :
              p < q => FirstPosition(dOut[p]) < FirstPosition(dOut[q])

\* Two objects of one identity with another identity between them: the
\* first object is kept, the later one dropped.
C11_Witness ==
    /\ entry = "deduplicate_agents" /\ pc = "returned"
    /\ Len(dIn) = 3 /\ Len(dOut) = 2
    /\ heap[dIn[1]].agent_id = heap[dIn[3]].agent_id
    /\ dIn[1] # dIn[3]
    /\ dOut = <<dIn[1], dIn[2]>>

----------------------------------------------------------------------------
(* Claims about apply_filters (SpecFilter)                                  *)

\* a is b with some elements left out.
SubListOf(a, b) ==
    \E f \in [DOMAIN a -> DOMAIN b] :
        /\ \A k \in DOMAIN a : b[f[k]] = a[k]
        /\ \A k, m \in DOMAIN a : k < m => f[k] < f[m]

\* C12: the list apply_filters returns under criteria of which one has been
\* tightened is a sub-list of, and so not longer than, the list it returns
\* for the same input under the criteria before the tightening.
C12_FilterMonotonic ==
    (entry = "apply_filters" /\ pc = "returned_twice") =>
        /\ Len(dOut2) <= Len(dOut)
        /\ SubListOf(dOut2, dOut)

\* The sales ceiling lowered from 5 to 2 drops an agent the looser ceiling
\* kept.
C12_Witness ==
    /\ entry = "apply_filters" /\ pc = "returned_twice"
    /\ dArgs.sales_max = 5 /\ dArgs2.sales_max = 2
    /\ Len(dOut) = 1 /\ dOut2 = <<>>

\* The predicate of the criterion f, as the claim reads it: a null field
\* fails a floor or a ceiling.
Meets(a, si, f) ==
    CASE f = "rating_min" -> a.rating # NoneN /\ a.rating >= si.rating_min
      [] f = "review_count_min" -> a.review_count >= si.review_count_min
      [] f = "sales_min" ->
            a.sales_last_12_months # NoneN /\ a.sales_last_12_months >= si.sales_min
      [] f = "sales_max" ->
            a.sales_last_12_months # NoneN /\ a.sales_last_12_months <= si.sales_max
      [] f = "years_experience_min" ->
            a.years_experience_min # NoneN
               /\ a.years_experience_min >= si.years_experience_min
      [] f = "is_top_agent" -> a.is_top_agent = (si.is_top_agent = "True")
      [] f = "exclude_teams" -> ~a.is_team
      [] f = "agent_type" -> a.agent_type = si.agent_type
      [] f = "specialties" -> MatchesAny(si.specialties, a.specialties)
      [] OTHER -> MatchesAny(si.languages, a.languages)

\* The elements of lst whose agents meet every criterion that is set.
Kept(lst, si) ==
    SelectSeq(lst, LAMBDA r :
        \A f \in CriteriaNames : IsSet(si, f) => Meets(heap[r], si, f))

\* C13: apply_filters returns, in input order, exactly the agents that meet
\* the predicate of every criterion that is set; an agent whose rating, sales
\* or years of experience is null fails a set floor or ceiling on it, and a
\* criterion that is not set drops nobody.
C13_FilterExact ==
    /\ (entry = "apply_filters" /\ pc \in {"returned", "returned_twice"}) =>
          dOut = Kept(dIn, dArgs)
    /\ (entry = "apply_filters" /\ pc = "returned_twice") =>
          dOut2 = Kept(dIn, dArgs2)

\* Under a rating floor the agent without a rating is dropped, the agent
\* rated above the floor kept; a second criterion then drops that one too.
C13_Witness ==
    /\ entry = "apply_filters" /\ pc = "returned_twice"
    /\ dArgs.rating_min = 4 /\ dArgs2.exclude_teams
    /\ Len(dIn) = 2
    /\ heap[dIn[1]].rating = NoneN /\ heap[dIn[2]].rating = 4
    /\ dOut = <<dIn[2]>> /\ dOut2 = <<>>

----------------------------------------------------------------------------
(* Claims about limit_results (SpecLimit)                                   *)

Max(a, b) == IF a >= b THEN a ELSE b

\* C14: limit_results(L, k, o) is L[o:o+k]: it has max(0, min(k, len(L) - o))
\* elements, and its p-th element is the (o + p)-th element of L; a limit or
\* an offset beyond the end of L gives a short or an empty list.
C14_LimitIsSlice ==
    (entry = "limit_results" /\ pc = "returned") =>
        /\ Len(dOut) = Max(0, Min(dArgs.limit, Len(dIn) - dArgs.offset))
        /\ \A p \in DOMAIN dOut : dOut[p] = dIn[dArgs.offset + p]

\* A window that starts inside the list and reaches beyond its end.
C14_Witness ==
    /\ entry = "limit_results" /\ pc = "returned"
    /\ Len(dIn) = 3 /\ dArgs.offset = 2 /\ dArgs.limit = 3
    /\ dOut = <<dIn[3]>>

----------------------------------------------------------------------------
(* Claims about sort_agents (SpecSort)                                      *)

NullableKeys == {"rating", "sales_last_12_months", "total_sales"}

\* The ways dOut can be read as a rearrangement of dIn.
Rearrangements ==
    { f \in [DOMAIN dOut -> DOMAIN dIn] :
        /\ \A p, q \in DOMAIN dOut : p # q => f[p] # f[q]
        /\ \A p \in DOMAIN dOut : dOut[p] = dIn[f[p]] }

\* C15 as stated: sorted by a key whose field can be null, in either
\* direction, the list is a rearrangement of the input in which no agent
\* without a value stands before an agent with one, and agents with equal
\* values stand in their input order.
C15_NullsLastStable ==
    (entry = "sort_agents" /\ pc = "returned" /\ dArgs.sort_by \in NullableKeys) =>
        /\ Len(dOut) = Len(dIn)
        /\ \A p, q \in DOMAIN dOut :
              p < q => ~( heap[dOut[p]][dArgs.sort_by] = NoneN
                          /\ heap[dOut[q]][dArgs.sort_by] # NoneN )
        /\ \E f \in Rearrangements :
              \A p, q \in DOMAIN dOut :
                 (p < q /\ heap[dOut[p]][dArgs.sort_by] = heap[dOut[q]][dArgs.sort_by])
                    => f[p] < f[q]

----------------------------------------------------------------------------
(* Claims about parse_agents_from_html (SpecCards)                          *)

\* A card of an agent that carries the three required keys and everything
\* else in the shape the parser reads.
WellFormed(card) ==
    /\ card.typename = AgentCardType
    /\ card.encodedZuid # NoneN
    /\ card.cardTitle # <<>>
    /\ card.cardActionLink # <<>>
    /\ card.reviewInformation.json = "object"
    /\ card.profileData = "ok"

WellFormedCards == SelectSeq(html.resultsCards, WellFormed)

----------------------------------------------------------------------------
(* Claims about a run that is asked to stop (SpecStop)                      *)

\* C18 as stated, in its first half: once the stop signal has been raised
\* the scheduler issues no further listing or profile request.  (The claim
\* adds that the run then ends within one sleep increment.)
C18_NoRequestAfterStop ==
    [][stop_requested => nRequests' = nRequests]_vars

----------------------------------------------------------------------------
(* Claims about the history of scrape_agent (Spec)                          *)

IdsOf(lst) == { heap[lst[k]].agent_id : k \in DOMAIN lst }

\* C19 as stated: when scrape_agent, called with skip_scraped, returns, no
\* identity it returns was in the history file at the start of the run (the
\* file is not written before this step), and every identity it returns is
\* in the history file afterwards.  That no identity is returned by two runs
\* on the same file follows from the two.
C19_ReturnedAreNewAndPersisted ==
    [][(entry = "scrape_agent" /\ pc = "facade" /\ skip_scraped
            /\ outcome' = "returned")
          => /\ IdsOf(result') \cap history_file = {}
             /\ IdsOf(result') \subseteq history_file']_vars

----------------------------------------------------------------------------
(* Claims about the agent_type criterion (SpecType)                         *)

\* The call has come back from search_agents with its list in final_agents.
SearchReturned == IsCall /\ pc \in {"facade", "done"} /\ outcome # "raised"

\* The agents handed to _fetch_all_profiles whose agent_type, now that their
\* profiles have been fetched, is the criterion.
FetchedOfType ==
    SelectSeq(agents, LAMBDA r : heap[r].agent_type = search_input.agent_type)

SourceHasThreeTimesLimit ==
    /\ Len(all_agents) >= search_input.limit
    /\ metadata >= 3 * search_input.limit

\* C21: when the agent_type criterion is set and the source has at least
\* 3 * limit agents, 3 * limit agents are handed to _fetch_all_profiles.
C21_WorkingSetWidened ==
    (IsCall /\ ProfilesEntered /\ saved_agent_type # None
        /\ SourceHasThreeTimesLimit)
    => total = 3 * search_input.limit

----------------------------------------------------------------------------
(* Specification of the continuous scraper, src/scrape_safe_continuous.py:  *)
(* the script is started, over a directory that holds a checkpoint.json or  *)
(* none, works through its states, may be interrupted from the keyboard,    *)
(* and is started again.                                                    *)

MaxRuns == 2        \* times the script is started
MaxSessions == 2    \* batches recorded in a checkpoint.json found on disk

\* The settings of the script's main block, lines 221-243.
states == <<"Nevada", "Florida", "Texas">>
default_batch_size == 10
agents_per_state == 50

\* The parameters of scrape_agent.
ScrapeAgentParams ==
    { "state", "city", "zip_code", "rating_min", "review_count_min",
      "sales_min", "sales_max", "years_experience_min", "specialties",
      "languages", "is_top_agent", "exclude_teams", "agent_type", "limit",
      "offset", "fetch_profiles", "skip_scraped", "history_file", "proxy",
      "timeout" }

\* The keyword arguments scrape_batch passes to scrape_agent.
ScrapeBatchKwargs ==
    { "state", "limit", "offset", "fetch_profiles", "delay_between_requests" }

\* Python binds a call only if every keyword names a parameter; otherwise
\* the call raises TypeError before the body runs.
CallBinds(kwargs) == kwargs \subseteq ScrapeAgentParams

\* load_checkpoint: the content of the file if it exists, else the default.
load_checkpoint(file) == IF file # <<>> THEN file[1] ELSE DefaultCheckpoint

\* The checkpoints save_checkpoint can have written: after k batches, the
\* last of them the o-th batch of state s.
SavedCheckpoints ==
    { [ total_scraped |-> k * default_batch_size, last_state |-> states[s],
        last_offset |-> o * default_batch_size, session_number |-> k ] :
      k \in 1..MaxSessions, s \in DOMAIN states, o \in 1..MaxSessions }

InitCont ==
    /\ entry = "run_continuous"
    /\ pc = "init"
    /\ nCalls = 0
    /\ heap = <<>>
    /\ IdleMerge
    /\ IdleDedup
    /\ IdleSearch
    /\ stop_requested = FALSE
    /\ checkpoint_file \in {<<>>} \cup { <<c>> : c \in SavedCheckpoints }
    /\ checkpoint = DefaultCheckpoint
    /\ state_index = 0 /\ batch_offset = 0 /\ total_for_state = 0
    /\ runs = 1

ContUnchanged ==
    UNCHANGED <<entry, nCalls, mergeVars, dedupVars, runVars, stop_requested>>

\* SafeContinuousScraper.__init__, lines 22-40.
Construct ==
    /\ pc = "init"
    /\ checkpoint' = load_checkpoint(checkpoint_file)
    /\ pc' = "run"
    /\ UNCHANGED <<checkpoint_file, state_index, batch_offset, total_for_state,
                   runs>>
    /\ ContUnchanged

\* run_continuous up to the first scrape_batch, lines 113-146.
RunContinuousStart ==
    /\ pc = "run"
    /\ state_index' = 1
    /\ batch_offset' = 0
    /\ total_for_state' = 0
    /\ pc' = "batch"
    /\ UNCHANGED <<checkpoint_file, checkpoint, runs>>
    /\ ContUnchanged

\* One iteration of the while loop, lines 147-170, with scrape_batch (lines
\* 63-111) and, when the loop ends, the step of the for loop to the next
\* state.  `n` is the number of agents scrape_agent returns if it is called.
ScrapeBatch(n) ==
    /\ pc = "batch"
    /\ LET raised == ~CallBinds(ScrapeBatchKwargs)
           scraped == IF raised THEN 0 ELSE n
           saved == [ total_scraped |-> checkpoint.total_scraped + scraped,
                      last_state |-> states[state_index],
                      last_offset |-> batch_offset + default_batch_size,
                      session_number |-> checkpoint.session_number + 1 ]
       IN  /\ IF scraped > 0
              THEN /\ checkpoint' = saved
                   /\ checkpoint_file' = <<saved>>
              ELSE UNCHANGED <<checkpoint, checkpoint_file>>
           /\ IF scraped > 0
                 /\ total_for_state + scraped < agents_per_state
              THEN /\ total_for_state' = total_for_state + scraped
                   /\ batch_offset' = batch_offset + default_batch_size
                   /\ UNCHANGED <<state_index, pc>>
              ELSE /\ total_for_state' = 0
                   /\ batch_offset' = 0
                   /\ IF state_index < Len(states)
                      THEN /\ state_index' = state_index + 1
                           /\ UNCHANGED pc
                      ELSE /\ pc' = "complete"
                           /\ UNCHANGED state_index
    /\ UNCHANGED runs
    /\ ContUnchanged

\* Ctrl+C while run_continuous works: `except KeyboardInterrupt`, lines
\* 183-192.
KeyboardInterrupt ==
    /\ pc = "batch"
    /\ pc' = "paused"
    /\ UNCHANGED contVars
    /\ ContUnchanged

\* "To resume, run this script again": a new process over the same
\* directory.
RunAgain ==
    /\ pc \in {"paused", "complete"}
    /\ runs < MaxRuns
    /\ runs' = runs + 1
    /\ pc' = "init"
    /\ checkpoint' = DefaultCheckpoint
    /\ state_index' = 0 /\ batch_offset' = 0 /\ total_for_state' = 0
    /\ UNCHANGED checkpoint_file
    /\ ContUnchanged

NextCont ==
    \/ Construct
    \/ RunContinuousStart
    \/ \E n \in 0..default_batch_size : ScrapeBatch(n)
    \/ KeyboardInterrupt
    \/ RunAgain

SpecCont == InitCont /\ [][NextCont]_vars

\* ---------------------------------------------------------------------------
\* Claims about the continuous scraper
\* ---------------------------------------------------------------------------

\* C22: a run started over a checkpoint that names a state and an offset
\* makes its first scrape_batch call for that state at that offset.
C22_ResumesFromCheckpoint ==
    [][(pc = "run" /\ pc' = "batch" /\ checkpoint.last_state # None)
       => /\ states[state_index'] = checkpoint.last_state
          /\ batch_offset' = checkpoint.last_offset]_vars

----------------------------------------------------------------------------
(* Specification of runs that page through the listing, among them a run   *)
(* that stands before page 100 with one agent collected from every page so *)
(* far and a limit out of its reach.                                        *)

FarLimit == 1000

InitAtPage(Pages) ==
    /\ entry = "search_agents"
    /\ pc = "page"
    /\ \E p \in Pages, lim \in {FarLimit} :
          /\ page = p
          /\ heap = [k \in 1..(p - 1) |-> SiteCard(k)]
          /\ all_agents = [k \in 1..(p - 1) |-> k]
          /\ metadata = 3 * lim
          /\ nRequests = p - 1
          /\ search_input = SearchInput("CA", None, None, None, lim, 0, FALSE,
                                        None)
    /\ skip_scraped = FALSE /\ history_file = {} /\ history_ids = {}
    /\ preHeap = <<>>
    /\ client = [created |-> TRUE, warmed_up |-> TRUE, closed |-> FALSE]
    /\ lastFetch = "ok"
    /\ saved_agent_type = None /\ final_agents = <<>>
    /\ agents = <<>> /\ unfetched = {} /\ enhanced_agents_dict = EmptyDict
    /\ i = 0 /\ total = 0 /\ batch_num = 0 /\ batch_size = 0 /\ j = 0
    /\ failed = {} /\ shuffled = FALSE
    /\ outcome = "running" /\ error = None /\ result = <<>>
    /\ slept \in { OneSleep("page", d) : d \in PageDelays }
    /\ complete_events = 0

InitPages ==
    /\ \/ InitCall("scrape_agent", 1..MaxLimit, {0}, {None}, {{}})
       \/ InitCall("search_agents", 1..MaxLimit, {0}, {None}, {{}})
       \/ InitAtPage({max_pages})
       \/ InitAtProfiles({MaxQueue})
    /\ html = None /\ argRef = 0 /\ retRef = 0 /\ nCalls = 0
    /\ IdleDedup
    /\ stop_requested = FALSE
    /\ IdleCont

SpecPages == InitPages /\ [][Next]_vars

\* ---------------------------------------------------------------------------
\* Claims about pagination
\* ---------------------------------------------------------------------------

\* A listing page is fetched and parsed without an exception.
PageFetched ==
    /\ IsCall /\ pc = "page"
    /\ nRequests' = nRequests + 1
    /\ outcome' = "running"

\* The next step is the request for the following page.
GoesToNextPage == pc' = "page" /\ page' = page + 1

\* C23: after page N the loop goes on to page N + 1 exactly when fewer than
\* limit agents are collected, page N yielded an agent, fewer agents are
\* collected than page N's metadata reports, and N is below max_pages; no
\* page beyond max_pages is requested, and the loop that ends at max_pages
\* ends without an exception.
C23_PaginationRule ==
    /\ [][PageFetched =>
            /\ GoesToNextPage <=>
                  /\ Len(all_agents') < search_input.limit
                  /\ Len(all_agents') > Len(all_agents)
                  /\ Len(all_agents') < metadata'
                  /\ page < max_pages
            /\ ~GoesToNextPage => pc' = "pipeline"]_vars
    /\ [](IsCall /\ pc = "page" => page <= max_pages)

\* The loop has ended at the ceiling: page max_pages is fetched, the limit
\* is not reached, the source has more, and the run goes on to line 107.
C23_Witness ==
    /\ IsCall /\ pc = "pipeline" /\ outcome = "running"
    /\ page = max_pages + 1
    /\ Len(all_agents) < search_input.limit
    /\ Len(all_agents) < metadata

----------------------------------------------------------------------------
(* Specification of runs one of which is _fetch_all_profiles called with a  *)
(* progress_callback in its SearchInput.                                    *)

InitProgress ==
    /\ \/ InitCall("scrape_agent", {1}, {0}, {None}, {{}})
       \/ InitCall("search_agents", {1}, {0}, {None}, {{}})
       \/ InitAtProfilesWith(0..MaxQueue, {"callback"})
    /\ html = None /\ argRef = 0 /\ retRef = 0 /\ nCalls = 0
    /\ IdleDedup
    /\ stop_requested = FALSE
    /\ IdleCont

SpecProgress == InitProgress /\ [][Next]_vars

\* ---------------------------------------------------------------------------
\* Claims about the detail-fetch loop
\* ---------------------------------------------------------------------------

\* The loop of _fetch_all_profiles has ended.
ProfileLoopEnded ==
    ProfilesEntered /\ pc \notin {"profiles", "batch", "fetch", "break"}

\* C24: every step of the loop that makes a request makes one request for
\* one agent not requested before; every batch has between 1 and 15 agents
\* and is worked through, so that the sizes add up to the queue's length; the
\* loop ends with every agent requested and with one 'complete' event, which
\* comes after the last agent.
C24_OneRequestPerRecord ==
    /\ [][ProfilesEntered /\ (i' # i \/ nRequests' # nRequests)
          => /\ pc = "fetch"
             /\ nRequests' = nRequests + 1
             /\ i' = i + 1
             /\ \E r \in unfetched : unfetched' = unfetched \ {r}]_vars
    /\ [](ProfilesEntered => i + Cardinality(unfetched) = total)
    /\ [](pc = "fetch" => /\ batch_size >= 1 /\ batch_size <= 15
                          /\ j < batch_size
                          /\ (i - j) + batch_size <= total)
    /\ [](pc = "break" => j = batch_size /\ i < total)
    /\ [](ProfileLoopEnded => /\ i = total /\ unfetched = {}
                              /\ (total > 0 => j = batch_size))
    /\ [](search_input.progress_callback # None =>
            /\ complete_events = IF ProfileLoopEnded /\ pc # "restore"
                                 THEN 1 ELSE 0)

\* A queue of MaxQueue agents was worked through in two batches, one request
\* per agent, and the callback has its 'complete' event.
C24_Witness ==
    /\ entry = "_fetch_all_profiles" /\ pc = "done" /\ outcome = "returned"
    /\ search_input.progress_callback # None
    /\ total = MaxQueue /\ i = total /\ batch_num = 2
    /\ nRequests = 1 + total
    /\ complete_events = 1

\* ---------------------------------------------------------------------------
\* Claims about the pacing of requests
\* ---------------------------------------------------------------------------

\* C25: a request that is not the first of its run is made after a sleep,
\* whether it asks for a listing page or for a profile, and a run that has
\* ended has not slept since its last request.
C25_NoBackToBackRequests ==
    /\ [][IsCall /\ nRequests >= 1 /\ nRequests' = nRequests + 1
          => slept # <<>>]_vars
    /\ [](IsCall /\ pc = "done" => slept = <<>>)

\* C26: every time.sleep call of a run sleeps 10 seconds at most, and every
\* call that does not end its pause is followed by a progress event when
\* there is a callback.
C26_SleepsInBoundedIncrements ==
    \A k \in DOMAIN slept :
        /\ slept[k].seconds <= 10
        /\ (~slept[k].last /\ search_input.progress_callback # None)
           => slept[k].event # None

\* ---------------------------------------------------------------------------
\* Claims about when the history is written
\* ---------------------------------------------------------------------------

\* C27: the history file changes only in the step in which scrape_agent
\* returns a list that is not empty, and then by the identities of that list;
\* a run that fails, or whose candidates were all in the history, leaves the
\* file and, from the loading on, the set in memory as they were.
C27_HistoryOnlyAfterSuccess ==
    /\ [][history_file' # history_file
          => /\ entry = "scrape_agent" /\ pc = "facade"
             /\ outcome' = "returned"
             /\ result' # <<>>
             /\ history_file' = history_file \cup IdsOf(result')]_vars
    /\ [][(entry = "scrape_agent" /\ pc # "start"
             /\ (outcome' = "raised" \/ (pc = "facade" /\ result' = <<>>)))
          => UNCHANGED <<history_file, history_ids>>]_vars

\* scrape_agent has returned an empty list because the one agent the search
\* found was in the history, and the file is what it was.
C27_Witness ==
    /\ entry = "scrape_agent" /\ pc = "done" /\ outcome = "returned"
    /\ skip_scraped
    /\ final_agents # <<>> /\ result = <<>>
    /\ IdsOf(final_agents) \subseteq history_ids
    /\ history_file = {1} /\ history_ids = {1}

----------------------------------------------------------------------------
(* Specification of runs with a specialties or a languages criterion and    *)
(* profile fetching, next to runs without one.                              *)

SubstringInputs ==
    { [SearchInput("CA", None, None, None, lim, 0, TRUE, None)
         EXCEPT !.specialties = c[1], !.languages = c[2]] :
      lim \in 1..MaxLimit,
      c \in { << <<"Luxury">>, <<>> >>, << <<>>, <<"Spanish">> >> } }

InitSubstring ==
    /\ \/ InitCallWhere("scrape_agent", SubstringInputs, {{}})
       \/ InitCallWhere("search_agents", SubstringInputs, {{}})
       \/ InitCall("scrape_agent", {1}, {0}, {None}, {{}})
       \/ InitAtProfiles({MaxQueue})
    /\ html = None /\ argRef = 0 /\ retRef = 0 /\ nCalls = 0
    /\ IdleDedup
    /\ stop_requested = FALSE
    /\ IdleCont

SpecSubstring == InitSubstring /\ [][Next]_vars

\* ---------------------------------------------------------------------------
\* Claims about the specialties and languages criteria
\* ---------------------------------------------------------------------------

\* The profile page the site holds for the agent at r lists a specialty, or
\* a language, the criterion names.
ProfileMatches(r) ==
    LET h == SiteProfile(heap[r].agent_id)
    IN  /\ search_input.specialties # <<>>
           => MatchesAny(search_input.specialties, h.specialties)
        /\ search_input.languages # <<>>
           => MatchesAny(search_input.languages, h.languages)

SubstringCriterion ==
    search_input.specialties # <<>> \/ search_input.languages # <<>>

\* C28: in a run with a specialties or languages criterion and profile
\* fetching, the filter of line 126 keeps an agent when a collected agent's
\* profile lists a match, and what the run returns lists a match.
C28_SubstringFilterOnProfile ==
    /\ [][(IsCall /\ pc = "pipeline" /\ SubstringCriterion
             /\ search_input.fetch_profiles
             /\ \E k \in DOMAIN all_agents : ProfileMatches(all_agents[k]))
          => final_agents' # <<>>]_vars
    /\ [](IsCall /\ pc = "done" /\ SubstringCriterion
          => \A k \in DOMAIN result :
                /\ search_input.specialties # <<>>
                   => MatchesAny(search_input.specialties,
                                 heap[result[k]].specialties)
                /\ search_input.languages # <<>>
                   => MatchesAny(search_input.languages,
                                 heap[result[k]].languages))

----------------------------------------------------------------------------
(* Specification of runs whose profile phase can be left by an exception    *)
(* no handler of the scraper catches.  The progress_callback is code of the *)
(* caller, called outside the `try` of lines 322-332, and a KeyboardInterrupt*)
(* is no Exception: neither is caught by _fetch_all_profiles, both pass     *)
(* through search_agents, whose `finally` closes the client.                *)

RaiseInputs ==
    { [SearchInput("CA", None, None, None, 1, 0, fp, at)
         EXCEPT !.progress_callback = cb] :
      fp \in BOOLEAN, at \in AgentTypes \cup {None},
      cb \in {None, "callback"} }

InitRaise ==
    /\ \/ InitCallWhere("search_agents", RaiseInputs, {{}})
       \/ InitCall("scrape_agent", {1}, {0}, {None}, {{}})
       \/ InitAtProfilesWith({MaxQueue}, {"callback"})
    /\ html = None /\ argRef = 0 /\ retRef = 0 /\ nCalls = 0
    /\ IdleDedup
    /\ stop_requested = FALSE
    /\ IdleCont

\* The exception leaves _fetch_all_profiles and, in a call, search_agents.
ProfilesRaise(kind) ==
    /\ Raise(kind)
    /\ client' = IF IsCall THEN [client EXCEPT !.closed = TRUE] ELSE client
    /\ UNCHANGED <<entry, stop_requested, contVars, paceVars, heap, preHeap,
                   otherVars, search_input, skip_scraped, histVars, nRequests,
                   lastFetch, listVars, saved_agent_type, final_agents,
                   profVars, result>>

\* Lines 272-277, 295-302, 313-319, 340-346, 370-375, 391-398, 414-420: one
\* of the calls of the progress_callback raises.
CallbackRaises ==
    /\ pc \in {"profiles", "batch", "fetch", "break", "restore"}
    /\ search_input.progress_callback # None
    /\ ProfilesRaise("CallbackError")

\* Lines 323, 348, 384: the user interrupts a request or a sleep of the
\* profile loop.
ProfilesInterrupted ==
    /\ pc \in {"fetch", "break"}
    /\ ProfilesRaise("KeyboardInterrupt")

NextRaise == Next \/ CallbackRaises \/ ProfilesInterrupted

SpecRaise == InitRaise /\ [][NextRaise]_vars

\* ---------------------------------------------------------------------------
\* Claims about the criteria record of the caller
\* ---------------------------------------------------------------------------

\* C29: search_agents leaves the agent_type criterion as it was at entry on
\* every exit: the criterion changes only where it is set aside in
\* saved_agent_type or put back from it, and when the call has returned or
\* raised a criterion that was set aside is back in the record.
C29_AgentTypeRestoredOnEveryExit ==
    /\ [][search_input'.agent_type # search_input.agent_type
          => \/ saved_agent_type' = search_input.agent_type
             \/ search_input'.agent_type = saved_agent_type]_vars
    /\ [](entry = "search_agents" /\ pc = "done" /\ saved_agent_type # None
          => search_input.agent_type = saved_agent_type)

----------------------------------------------------------------------------
(* Specification of runs that ask for a window further down the list.       *)

MaxOffset == 2      \* search_input.offset

InitOffset ==
    /\ \/ InitCall("scrape_agent", 1..MaxLimit, 0..MaxOffset, {None}, {{}})
       \/ InitCall("search_agents", 1..MaxLimit, 0..MaxOffset, {None}, {{}})
       \/ InitAtProfiles({MaxQueue})
    /\ html = None /\ argRef = 0 /\ retRef = 0 /\ nCalls = 0
    /\ IdleDedup
    /\ stop_requested = FALSE
    /\ IdleCont

SpecOffset == InitOffset /\ [][Next]_vars

\* ---------------------------------------------------------------------------
\* Claims about limit and offset
\* ---------------------------------------------------------------------------

\* The filtered, deduplicated, sorted candidates of line 135, as the heap
\* held them before any profile was merged.
Candidates ==
    LET hp == IF search_input.fetch_profiles THEN preHeap ELSE heap
    IN  sort_agents(hp, deduplicate_agents(hp,
            apply_filters(hp, all_agents, search_input)), "rating", TRUE)

\* The run has returned; the listing reports at least offset + limit agents
\* and its pages were not cut short: the page loop ended with `limit` agents
\* that pass the filters and differ from one another.
WindowAvailable ==
    /\ IsCall /\ pc = "done" /\ outcome = "returned"
    /\ ~skip_scraped /\ search_input.agent_type = None
    /\ metadata >= search_input.offset + search_input.limit
    /\ Len(Candidates) >= search_input.limit

\* C30: without history skipping and without an agent_type criterion, a run
\* with limit k and offset o over a source of at least o + k agents returns
\* exactly k agents, those at positions o+1..o+k of the filtered,
\* deduplicated, sorted candidates.
C30_WindowOfLimitAtOffset ==
    WindowAvailable
    => /\ Len(result) = search_input.limit
       /\ Len(Candidates) >= search_input.offset + search_input.limit
       /\ \A k \in 1..search_input.limit :
             heap[result[k]].agent_id
                = (IF search_input.fetch_profiles THEN preHeap ELSE heap)
                     [Candidates[search_input.offset + k]].agent_id
=============================================================================
